---- MODULE Spec2Model ----
(***************************************************************************)
(* Model of the SVG text-layout and composition service (svgService) of    *)
(* the mockup generator: escapeXml, the style resolver, the text layout    *)
(* engine, the font resolver and the compose / raster operations.          *)
(*                                                                         *)
(* Strings are sequences of pieces.  Every XML-significant character and   *)
(* every whitespace character is a piece of its own, so that replace(),    *)
(* split() and trim() act on pieces exactly as the code acts on            *)
(* characters.  A document is a sequence of tokens; a token records where  *)
(* the piece comes from (the template, an interpolated value, an id ...).  *)
(***************************************************************************)
EXTENDS Integers, Sequences, FiniteSets, TLC

VARIABLES
    escIn,      \* escapeXml: the argument `unsafe`
    escOut,     \* escapeXml: the returned string
    escDone,    \* escapeXml: TRUE once escOut is the result for escIn
    layDesign,  \* getTextElements: the argument `design`
    layBox,     \* getTextElements: the argument `scaledLogo`
    layOut,     \* getTextElements: the returned markup
    layDone,    \* getTextElements: TRUE once layOut is the result
    cDesign,      \* the DesignOptions record the caller passed
    logoNat,      \* natural width and height of the image the logo denotes
    op,           \* the exported operation that was called
    embedArg,     \* the embedFont argument of the generateTextOnlySvg invocation
    pc,           \* the event the render is suspended on
    fontAsset,    \* the value fetchAndEncodeFont resolved with
    fontOutcome,  \* how the promise of fetchAndEncodeFont settled
    fontFailAt,   \* the step of fetchAndEncodeFont that failed
    result,       \* how the promise of the called operation settled
    svgString,    \* the text-only document handed to the engraving / PNG step
    canvas,       \* width and height of the canvas of generateTextOnlyPng
    logoDecodes,  \* getLogoDimensions calls started
    cssFetches,   \* fetches of the font stylesheet started
    binFetches,   \* fetches of the font file started
    urlsCreated,  \* URL.createObjectURL calls
    urlsRevoked,  \* URL.revokeObjectURL calls
    composeCalls, \* generateTextOnlySvg invocations
    sclDims,    \* scaling step: the decoded logo dimensions `logoDims`
    sclBox,     \* scaling step: the computed `scaledLogo`
    sclDone,    \* scaling step: TRUE once sclBox is the result for sclDims
    styIn,      \* style resolver: the arguments style, textColor, id
    styAttrs,   \* style resolver: the result of getTextStyleSvg
    styDefs,    \* style resolver: the result of getTextStyleDefs
    styDone,    \* style resolver: TRUE once styAttrs, styDefs are the results
    renders,    \* two renders of one page: slot -> op, design, pc, concurrent, doc
    history,        \* App: the useState array of design states
    historyIndex,   \* App: the useState index of the current design (from 0)
    readers,        \* App: FileReaders started by handleLogoChange, each with the
                    \*      history and historyIndex its setDesign closure captured
    logoFileRef,    \* App: logoFileRef.current
    sampleLogo,     \* App: the fetch of the sample logo started by useEffect
    isLoading,      \* App: useState flag
    error,          \* App: useState message, "null" when none
    generatedImage, \* App: useState image, "null" when none
    requests,       \* App: calls of generateMockupFromApi that have not settled
    lastOp,         \* App: the handler that ran last
    lastNewState    \* App: newState of the setDesign call of the last handler,
                    \*      the initial design when it made none

escVars == <<escIn, escOut, escDone>>
layVars == <<layDesign, layBox, layOut, layDone>>
callVars == <<cDesign, logoNat, op>>
fontVars == <<fontAsset, fontOutcome, fontFailAt>>
netVars == <<cssFetches, binFetches>>
renVars == <<cDesign, logoNat, op, embedArg, pc, fontAsset, fontOutcome, fontFailAt,
             result, svgString, canvas, logoDecodes, cssFetches, binFetches,
             urlsCreated, urlsRevoked, composeCalls>>

sclVars == <<sclDims, sclBox, sclDone>>
styVars == <<styIn, styAttrs, styDefs, styDone>>
appVars == <<history, historyIndex, readers, logoFileRef, sampleLogo, isLoading, error,
             generatedImage, requests, lastOp, lastNewState>>
pureVars == <<sclVars, styVars, renders, appVars>>

vars == <<escVars, layVars, renVars, pureVars>>

----------------------------------------------------------------------------
(* Bounds of the model *)

MaxEscLen == 4
MaxLayLen == 5
MaxTextLen == 1

----------------------------------------------------------------------------
(* Generic sequence helpers *)

RECURSIVE Flatten(_)
Flatten(ss) == IF ss = <<>> THEN <<>> ELSE Head(ss) \o Flatten(Tail(ss))

\* String.prototype.replace with a /g pattern matching single characters is
\* Flatten of the per-piece replacements.

----------------------------------------------------------------------------
(* escapeXml *)

XmlSpecial == {"<", ">", "&", "'", "\""}

\* escapeXml with the '&' case of the switch left out.
EscapeChar_NoAmp(c) ==
    CASE c = "<"  -> <<"&", "l", "t", ";">>
      [] c = ">"  -> <<"&", "g", "t", ";">>
      [] c = "'"  -> <<"&", "a", "p", "o", "s", ";">>
      [] c = "\"" -> <<"&", "q", "u", "o", "t", ";">>
      [] OTHER    -> <<c>>

EscapeChar(c) ==
    CASE c = "<"  -> <<"&", "l", "t", ";">>
      [] c = ">"  -> <<"&", "g", "t", ";">>
      [] c = "&"  -> <<"&", "a", "m", "p", ";">>
      [] c = "'"  -> <<"&", "a", "p", "o", "s", ";">>
      [] c = "\"" -> <<"&", "q", "u", "o", "t", ";">>
      [] OTHER    -> <<c>>

escapeXml(unsafe) == Flatten([i \in 1..Len(unsafe) |-> EscapeChar(unsafe[i])])

\* The five predefined entities of XML, as an XML parser reads them.
Entities ==
    { [name |-> <<"&", "l", "t", ";">>, ch |-> "<"],
      [name |-> <<"&", "g", "t", ";">>, ch |-> ">"],
      [name |-> <<"&", "a", "m", "p", ";">>, ch |-> "&"],
      [name |-> <<"&", "a", "p", "o", "s", ";">>, ch |-> "'"],
      [name |-> <<"&", "q", "u", "o", "t", ";">>, ch |-> "\""] }

StartsWith(s, i, pre) ==
    /\ i + Len(pre) - 1 <= Len(s)
    /\ \A k \in 1..Len(pre) : s[i + k - 1] = pre[k]

EntityAt(s, i) == { e \in Entities : StartsWith(s, i, e.name) }

\* Decoding of character data: each entity reference becomes its character,
\* every other piece is kept.
RECURSIVE XmlDecodeFrom(_, _)
XmlDecodeFrom(s, i) ==
    IF i > Len(s) THEN <<>>
    ELSE IF EntityAt(s, i) # {}
         THEN LET e == CHOOSE x \in EntityAt(s, i) : TRUE
              IN  <<e.ch>> \o XmlDecodeFrom(s, i + Len(e.name))
         ELSE <<s[i]>> \o XmlDecodeFrom(s, i + 1)

XmlDecode(s) == XmlDecodeFrom(s, 1)

\* s is safe character data / attribute data: no raw '<', '>', quote or
\* apostrophe, and every '&' starts one of the five entities.
XmlSafe(s) ==
    \A i \in 1..Len(s) :
        /\ s[i] \notin {"<", ">", "'", "\""}
        /\ s[i] = "&" => EntityAt(s, i) # {}

----------------------------------------------------------------------------
(* Exact rational numbers <<n, d>>, d > 0, in lowest terms.  The code       *)
(* computes in IEEE doubles; the numbers written into a document are       *)
(* modelled by their exact quotients.  The scaling step is modelled in     *)
(* binary64 as well (Ratio64, ScaledLogo64).                               *)

Abs(n) == IF n < 0 THEN -n ELSE n

RECURSIVE Gcd(_, _)
Gcd(a, b) == IF b = 0 THEN a ELSE Gcd(b, a % b)

QNorm(n, d) ==
    LET g == Gcd(Abs(n), d)
    IN  IF n = 0 THEN <<0, 1>> ELSE <<n \div g, d \div g>>

Q(n) == <<n, 1>>
QAdd(a, b) == QNorm(a[1] * b[2] + b[1] * a[2], a[2] * b[2])
QSub(a, b) == QNorm(a[1] * b[2] - b[1] * a[2], a[2] * b[2])
QMul(a, b) == QNorm(a[1] * b[1], a[2] * b[2])
QHalf(a) == QNorm(a[1], a[2] * 2)
QLe(a, b) == a[1] * b[2] <= b[1] * a[2]
QMinOf(S) == CHOOSE a \in S : \A b \in S : QLe(a, b)
QMaxOf(S) == CHOOSE a \in S : \A b \in S : QLe(b, a)

----------------------------------------------------------------------------
(* Tokens of a produced document *)

Tok(src, s, q) == <<[src |-> src, s |-> s, q |-> q]>>

Tpl(s)      == Tok("tpl", s, Q(0))       \* text of the template literal
Open(n)     == Tok("open", n, Q(0))      \* <n
TagEnd      == Tok("tagend", ">", Q(0))  \* >  ending an opening tag
SelfEnd     == Tok("selfend", "/>", Q(0))\* /> ending an empty element
Close(n)    == Tok("close", n, Q(0))     \* </n>
IdDef(id)   == Tok("iddef", id, Q(0))    \* id="..."
IdRef(id)   == Tok("idref", id, Q(0))    \* url(#...) or href="#..."
Num(q)      == Tok("num", "", q)         \* an interpolated number
LogoRef(l)  == Tok("logo", l, Q(0))      \* href="${logo}"
\* an interpolated string, one token per piece
Pieces(src, str) == [i \in 1..Len(str) |-> [src |-> src, s |-> str[i], q |-> Q(0)]]
Val(str)    == Pieces("val", str)        \* a text or colour of the design
Font(str)   == Pieces("font", str)       \* the font display name
Url(str)    == Pieces("url", str)        \* the font stylesheet URL
Data(str)   == Pieces("data", str)       \* a data URI / format of a font asset

----------------------------------------------------------------------------
(* getTextStyleSvg, getTextStyleDefs *)

TextStyles ==
    {"outline", "shadow", "glow", "neon", "3d", "metallic", "chrome",
     "gradient", "varsity", "none"}

getTextStyleSvg(style, textColor, id) ==
    CASE style = "outline" ->
            Tpl("stroke=black stroke-width=2 fill=") \o Val(textColor)
      [] style = "shadow" ->
            Tpl("fill=") \o Val(textColor) \o Tpl("filter=") \o IdRef("shadow-" \o id)
      [] style = "glow" ->
            Tpl("fill=white filter=") \o IdRef("glow-" \o id)
      [] style = "neon" ->
            Tpl("fill=") \o Val(textColor) \o Tpl("filter=") \o IdRef("neon-" \o id)
      [] style = "3d" ->
            Tpl("fill=") \o Val(textColor) \o Tpl("filter=") \o IdRef("three-d-" \o id)
      [] style = "metallic" ->
            Tpl("fill=") \o IdRef("metallic-" \o id)
      [] style = "chrome" ->
            Tpl("fill=") \o IdRef("chrome-" \o id) \o Tpl("stroke=#4B5563 stroke-width=0.5")
      [] style = "gradient" ->
            Tpl("fill=") \o IdRef("gradient-" \o id)
      [] style = "varsity" ->
            Tpl("stroke=black stroke-width=4 stroke-linejoin=round fill=") \o Val(textColor)
      [] OTHER ->
            Tpl("fill=") \o Val(textColor)

\* getTextStyleDefs with the shadow case alone
getTextStyleDefs_ShadowOnly(style, textColor, gradientStart, gradientEnd, id) ==
    IF style = "shadow"
    THEN Open("filter") \o IdDef("shadow-" \o id) \o TagEnd
         \o Open("feDropShadow") \o Tpl("dx=3 dy=3 stdDeviation=3 flood-color=rgba(0,0,0,0.5)") \o SelfEnd
         \o Close("filter")
    ELSE <<>>

getTextStyleDefs(style, textColor, gradientStart, gradientEnd, id) ==
    CASE style = "shadow" ->
            Open("filter") \o IdDef("shadow-" \o id) \o TagEnd
            \o Open("feDropShadow") \o Tpl("dx=3 dy=3 stdDeviation=3 flood-color=rgba(0,0,0,0.5)") \o SelfEnd
            \o Close("filter")
      [] style = "glow" ->
            Open("filter") \o IdDef("glow-" \o id) \o TagEnd
            \o Open("feGaussianBlur") \o Tpl("in=SourceGraphic stdDeviation=4 result=blur") \o SelfEnd
            \o Open("feMerge") \o TagEnd
            \o Open("feMergeNode") \o Tpl("in=blur") \o SelfEnd
            \o Open("feMergeNode") \o Tpl("in=SourceGraphic") \o SelfEnd
            \o Close("feMerge") \o Close("filter")
      [] style = "neon" ->
            Open("filter") \o IdDef("neon-" \o id) \o TagEnd
            \o Open("feFlood") \o Tpl("result=flood flood-color=") \o Val(textColor)
                \o Tpl("flood-opacity=0.7") \o SelfEnd
            \o Open("feComposite") \o Tpl("in=flood in2=SourceGraphic operator=in result=color-out") \o SelfEnd
            \o Open("feGaussianBlur") \o Tpl("in=color-out stdDeviation=4 result=blur-out") \o SelfEnd
            \o Open("feMerge") \o TagEnd
            \o Open("feMergeNode") \o Tpl("in=blur-out") \o SelfEnd
            \o Open("feMergeNode") \o Tpl("in=SourceGraphic") \o SelfEnd
            \o Close("feMerge") \o Close("filter")
      [] style = "3d" ->
            Open("filter") \o IdDef("three-d-" \o id) \o TagEnd
            \o Open("feDropShadow") \o Tpl("dx=3 dy=3 stdDeviation=0 flood-color=#4B5563") \o SelfEnd
            \o Close("filter")
      [] style = "metallic" ->
            Open("linearGradient") \o IdDef("metallic-" \o id) \o TagEnd
            \o Open("stop") \o Tpl("offset=0% stop-color=#E5E7EB") \o SelfEnd
            \o Open("stop") \o Tpl("offset=50% stop-color=#9CA3AF") \o SelfEnd
            \o Open("stop") \o Tpl("offset=100% stop-color=#E5E7EB") \o SelfEnd
            \o Close("linearGradient")
      [] style = "chrome" ->
            Open("linearGradient") \o IdDef("chrome-" \o id) \o TagEnd
            \o Open("stop") \o Tpl("offset=0% stop-color=#6B7280") \o SelfEnd
            \o Open("stop") \o Tpl("offset=30% stop-color=#D1D5DB") \o SelfEnd
            \o Open("stop") \o Tpl("offset=50% stop-color=#F9FAFB") \o SelfEnd
            \o Open("stop") \o Tpl("offset=70% stop-color=#D1D5DB") \o SelfEnd
            \o Open("stop") \o Tpl("offset=100% stop-color=#6B7280") \o SelfEnd
            \o Close("linearGradient")
      [] style = "gradient" ->
            Open("linearGradient") \o IdDef("gradient-" \o id) \o TagEnd
            \o Open("stop") \o Tpl("offset=0% stop-color=") \o Val(gradientStart) \o SelfEnd
            \o Open("stop") \o Tpl("offset=100% stop-color=") \o Val(gradientEnd) \o SelfEnd
            \o Close("linearGradient")
      [] OTHER -> <<>>

----------------------------------------------------------------------------
(* String helpers of the layout engine and the composer *)

Whitespace == {" ", "\t"}

\* !text.trim(): the text is empty or whitespace only
IsBlank(text) == \A i \in 1..Len(text) : text[i] \in Whitespace

\* text.split(/\s+/): a separator is a maximal run of whitespace; a leading
\* or trailing separator yields an empty first or last element.
RECURSIVE SplitFrom(_, _, _)
SplitFrom(s, i, cur) ==
    IF i > Len(s) THEN <<cur>>
    ELSE IF s[i] \in Whitespace
         THEN IF i > 1 /\ s[i - 1] \in Whitespace
              THEN SplitFrom(s, i + 1, cur)
              ELSE <<cur>> \o SplitFrom(s, i + 1, <<>>)
         ELSE SplitFrom(s, i + 1, Append(cur, s[i]))

SplitWs(text) == SplitFrom(text, 1, <<>>)

\* words.join(' ')
RECURSIVE JoinSp(_)
JoinSp(words) ==
    IF words = <<>> THEN <<>>
    ELSE IF Len(words) = 1 THEN words[1]
    ELSE words[1] \o <<" ">> \o JoinSp(Tail(words))

\* words.slice(a, b) with 0-based a, exclusive b
Slice(words, a, b) == SubSeq(words, a + 1, b)

\* Math.ceil(words.length / 2)
MidPoint(words) == (Len(words) + 1) \div 2

FirstHalf(text) ==
    LET words == SplitWs(text) IN JoinSp(Slice(words, 0, MidPoint(words)))

SecondHalf(text) ==
    LET words == SplitWs(text) IN JoinSp(Slice(words, MidPoint(words), Len(words)))

\* The font catalog: logical font id -> display name.
TSHIRT_FONTS ==
    [f \in {"creepster", "bebas_neue"} |->
        IF f = "creepster" THEN <<"Creepster">> ELSE <<"Bebas", " ", "Neue">>]

\* TSHIRT_FONTS.find(f => f.id === font)?.name || 'Impact'
FontName(font) ==
    IF font \in DOMAIN TSHIRT_FONTS THEN TSHIRT_FONTS[font] ELSE <<"Impact">>

----------------------------------------------------------------------------
(* getTextElements *)

LayoutStyles ==
    {"classic", "lower_half_circle", "upper_half_circle", "upper_oval",
     "lower_oval", "full_circle", "split", "stacked_text", "distressed_vintage"}

PathDef(pathId, x1, y1, rx, ry, sweep, x2, y2, fill) ==
    Open("path") \o IdDef(pathId)
    \o Tpl("d=M") \o Num(x1) \o Num(y1)
    \o Tpl("A") \o Num(rx) \o Num(ry) \o Tpl(sweep) \o Num(x2) \o Num(y2)
    \o Tpl(fill) \o SelfEnd

TextOnPath(pathId, commonTextProps, content) ==
    Open("text") \o TagEnd
    \o Open("textPath") \o IdRef(pathId) \o Tpl("startOffset=50% text-anchor=middle")
    \o commonTextProps \o TagEnd
    \o Val(content)
    \o Close("textPath") \o Close("text")

TextAt(x, y, anchor, commonTextProps, content) ==
    Open("text") \o Tpl("x=") \o Num(x) \o Tpl("y=") \o Num(y) \o Tpl(anchor)
    \o commonTextProps \o TagEnd
    \o Val(content)
    \o Close("text")

RECURSIVE StackedLines(_, _, _, _, _)
StackedLines(words, i, center, scaledLogo, commonTextProps) ==
    IF i >= Len(words) THEN <<>>
    ELSE TextAt(center.x,
                QAdd(QAdd(QAdd(center.y, QHalf(scaledLogo.height)), Q(30)), Q(i * 60)),
                "text-anchor=middle", commonTextProps, escapeXml(words[i + 1]))
         \o StackedLines(words, i + 1, center, scaledLogo, commonTextProps)

getTextElements(design, scaledLogo, center) ==
    LET text == design.text
        fontName == FontName(design.font)
        textId == "text-element"
        textStyleAttributes == getTextStyleSvg(design.textStyle, design.textColor, textId)
        commonTextProps ==
            textStyleAttributes \o Tpl("font-family='") \o Font(fontName)
            \o Tpl("', sans-serif font-size=50px")
        below == QAdd(QAdd(center.y, QHalf(scaledLogo.height)), Q(20))
        above == QSub(QSub(center.y, QHalf(scaledLogo.height)), Q(20))
    IN
    CASE design.style \in {"classic", "lower_half_circle"} ->
            LET radius == QAdd(QHalf(scaledLogo.width), Q(30))
                pathId == "text-path-lower"
            IN  Open("defs") \o TagEnd
                \o PathDef(pathId, QSub(center.x, radius), below, radius, radius,
                           "0 0 1", QAdd(center.x, radius), below, "fill=none")
                \o Close("defs")
                \o TextOnPath(pathId, commonTextProps, escapeXml(text))
      [] design.style = "upper_half_circle" ->
            LET radius == QAdd(QHalf(scaledLogo.width), Q(30))
                pathId == "text-path-upper"
            IN  Open("defs") \o TagEnd
                \o PathDef(pathId, QAdd(center.x, radius), above, radius, radius,
                           "0 0 0", QSub(center.x, radius), above, "fill=none")
                \o Close("defs")
                \o TextOnPath(pathId, commonTextProps, escapeXml(text))
      [] design.style = "upper_oval" ->
            LET rx == QAdd(QHalf(scaledLogo.width), Q(80))
                ry == Q(60)
                pathId == "text-path-upper-oval"
            IN  Open("defs") \o TagEnd
                \o PathDef(pathId, QAdd(center.x, rx), above, rx, ry,
                           "0 0 0", QSub(center.x, rx), above, "fill=none")
                \o Close("defs")
                \o TextOnPath(pathId, commonTextProps, escapeXml(text))
      [] design.style = "lower_oval" ->
            LET rx == QAdd(QHalf(scaledLogo.width), Q(80))
                ry == Q(60)
                pathId == "text-path-lower-oval"
            IN  Open("defs") \o TagEnd
                \o PathDef(pathId, QSub(center.x, rx), below, rx, ry,
                           "0 0 1", QAdd(center.x, rx), below, "fill=none")
                \o Close("defs")
                \o TextOnPath(pathId, commonTextProps, escapeXml(text))
      [] design.style = "full_circle" ->
            LET topText == FirstHalf(text)
                bottomText == SecondHalf(text)
                radius == QAdd(QHalf(QMaxOf({scaledLogo.width, scaledLogo.height})), Q(50))
                pathTopId == "text-path-top"
                pathBottomId == "text-path-bottom"
            IN  Open("defs") \o TagEnd
                \o PathDef(pathTopId, QAdd(center.x, radius), center.y, radius, radius,
                           "0 0 0", QSub(center.x, radius), center.y, "")
                \o PathDef(pathBottomId, QSub(center.x, radius), center.y, radius, radius,
                           "0 0 1", QAdd(center.x, radius), center.y, "")
                \o Close("defs")
                \o TextOnPath(pathTopId, commonTextProps, escapeXml(topText))
                \o TextOnPath(pathBottomId, commonTextProps, escapeXml(bottomText))
      [] design.style = "split" ->
            LET leftText == FirstHalf(text)
                rightText == SecondHalf(text)
            IN  TextAt(QSub(QSub(center.x, QHalf(scaledLogo.width)), Q(20)), center.y,
                       "text-anchor=end dominant-baseline=middle",
                       commonTextProps, escapeXml(leftText))
                \o TextAt(QAdd(QAdd(center.x, QHalf(scaledLogo.width)), Q(20)), center.y,
                       "text-anchor=start dominant-baseline=middle",
                       commonTextProps, escapeXml(rightText))
      [] design.style = "stacked_text" ->
            StackedLines(SplitWs(text), 0, center, scaledLogo, commonTextProps)
      [] OTHER ->
            TextAt(center.x, QAdd(QAdd(center.y, QHalf(scaledLogo.height)), Q(60)),
                   "text-anchor=middle", commonTextProps, escapeXml(text))

----------------------------------------------------------------------------
(* The composers: the documents built by generateTextOnlySvg,              *)
(* generateCombinedSvg and generateEngravingSvg once their awaits are done *)

VIEWBOX_SIZE == 1000
maxLogoDim == 400

Center == [x |-> QHalf(Q(VIEWBOX_SIZE)), y |-> QHalf(Q(VIEWBOX_SIZE))]

\* ratio = Math.min(maxLogoDim / width, maxLogoDim / height, 1); a division
\* by zero yields +Infinity, which is never the minimum.
ScaleRatio(logoDims) ==
    QMinOf( {Q(1)}
            \cup (IF logoDims.width > 0 THEN {QNorm(maxLogoDim, logoDims.width)} ELSE {})
            \cup (IF logoDims.height > 0 THEN {QNorm(maxLogoDim, logoDims.height)} ELSE {}) )

ScaledLogo(logoDims) ==
    [width  |-> QMul(Q(logoDims.width), ScaleRatio(logoDims)),
     height |-> QMul(Q(logoDims.height), ScaleRatio(logoDims))]

\* fontName.replace(/ /g, '+')
PlusForSpace(c) == IF c = " " THEN <<"+">> ELSE <<c>>

FontUrl(fontName) ==
    <<"https://fonts.googleapis.com/css2?family=">>
    \o Flatten([i \in 1..Len(fontName) |-> PlusForSpace(fontName[i])])
    \o <<":wght@400;700", "&", "display=swap">>

\* fontUrl.replace(/&/g, '&amp;')
AmpChar(c) == IF c = "&" THEN <<"&", "a", "m", "p", ";">> ELSE <<c>>

EscapeAmp(url) == Flatten([i \in 1..Len(url) |-> AmpChar(url[i])])

EmptyFont == [dataUri |-> <<>>, format |-> <<>>]

\* the import of the font URL with its '&' left as it is
ImportStyle_RawAmp(fontUrl) ==
    Open("style") \o TagEnd \o Tpl("@import url('") \o Url(fontUrl)
    \o Tpl("');") \o Close("style")

ImportStyle(fontUrl) ==
    Open("style") \o TagEnd \o Tpl("@import url('") \o Url(EscapeAmp(fontUrl))
    \o Tpl("');") \o Close("style")

\* generateTextOnlySvg with the '&' of the URL left unescaped in the fallback
\* of the embed branch
FontStyleDef_RawFallback(fontName, fontUrl, embedFont, fontData) ==
    IF embedFont
    THEN IF fontData.dataUri # <<>>
         THEN Open("style") \o TagEnd
              \o Tpl("@font-face { font-family: '") \o Font(fontName)
              \o Tpl("'; src: url(") \o Data(fontData.dataUri)
              \o Tpl(") format('") \o Data(fontData.format) \o Tpl("'); }")
              \o Close("style")
         ELSE Open("style") \o TagEnd \o Tpl("@import url('") \o Url(fontUrl)
              \o Tpl("');") \o Close("style")
    ELSE ImportStyle(fontUrl)

FontStyleDef(fontName, fontUrl, embedFont, fontData) ==
    IF embedFont
    THEN IF fontData.dataUri # <<>>
         THEN Open("style") \o TagEnd
              \o Tpl("@font-face { font-family: '") \o Font(fontName)
              \o Tpl("'; src: url(") \o Data(fontData.dataUri)
              \o Tpl(") format('") \o Data(fontData.format) \o Tpl("'); }")
              \o Close("style")
         ELSE ImportStyle(fontUrl)
    ELSE ImportStyle(fontUrl)

\* '<svg xmlns="http://www.w3.org/2000/svg" width="1000" height="1000"></svg>'
MinimalSvg ==
    Open("svg") \o Tpl("xmlns=http://www.w3.org/2000/svg")
    \o Tpl("width=") \o Num(Q(1000)) \o Tpl("height=") \o Num(Q(1000)) \o TagEnd
    \o Close("svg")

SvgOpen(xmlns) ==
    Open("svg") \o Tpl("width=") \o Num(Q(VIEWBOX_SIZE))
    \o Tpl("height=") \o Num(Q(VIEWBOX_SIZE))
    \o Tpl("viewBox=0 0") \o Num(Q(VIEWBOX_SIZE)) \o Num(Q(VIEWBOX_SIZE))
    \o Tpl(xmlns) \o TagEnd

ImageElement(logo, scaledLogo, extra) ==
    Open("image") \o LogoRef(logo)
    \o Tpl("x=") \o Num(QSub(Center.x, QHalf(scaledLogo.width)))
    \o Tpl("y=") \o Num(QSub(Center.y, QHalf(scaledLogo.height)))
    \o Tpl("width=") \o Num(scaledLogo.width)
    \o Tpl("height=") \o Num(scaledLogo.height)
    \o Tpl("preserveAspectRatio=xMidYMid meet") \o extra \o SelfEnd

\* generateTextOnlySvg after the logo has been measured and the font resolved
TextOnlyDoc(design, logoDims, embedFont, fontData) ==
    LET scaledLogo == ScaledLogo(logoDims)
        fontName == FontName(design.font)
        fontUrl == FontUrl(fontName)
        fontStyleDef == FontStyleDef(fontName, fontUrl, embedFont, fontData)
        textId == "text-element"
        textStyleDefs == getTextStyleDefs(design.textStyle, design.textColor,
                             design.gradientStartColor, design.gradientEndColor, textId)
        textElements == getTextElements(design, scaledLogo, Center)
    IN  SvgOpen("xmlns=http://www.w3.org/2000/svg")
        \o Open("defs") \o TagEnd \o fontStyleDef \o textStyleDefs \o Close("defs")
        \o textElements
        \o Close("svg")

\* generateCombinedSvg calling the layout engine for every text
CombinedHasText_Always(design) == TRUE

\* text.trim() ? getTextElements(...) : ''
CombinedHasText(design) == ~IsBlank(design.text)

\* generateCombinedSvg after the logo has been measured
CombinedDoc(design, logoDims) ==
    LET scaledLogo == ScaledLogo(logoDims)
        fontName == FontName(design.font)
        fontStyleDef == ImportStyle(FontUrl(fontName))
        textId == "design-element"
        textStyleDefs == getTextStyleDefs(design.textStyle, design.textColor,
                             design.gradientStartColor, design.gradientEndColor, textId)
        textElements == IF CombinedHasText(design)
                        THEN getTextElements(design, scaledLogo, Center)
                        ELSE <<>>
    IN  SvgOpen("xmlns=http://www.w3.org/2000/svg xmlns:xlink=http://www.w3.org/1999/xlink")
        \o Open("defs") \o TagEnd \o fontStyleDef \o textStyleDefs \o Close("defs")
        \o ImageElement(design.logo, scaledLogo, <<>>)
        \o textElements
        \o Close("svg")

\* the override of generateEngravingSvg without its textStyle part
EngravingDesign_KeepStyle(design) ==
    [design EXCEPT !.textColor = <<"#000000">>]

\* { ...design, textColor: '#000000', textStyle: 'none' }
EngravingDesign(design) ==
    [design EXCEPT !.textColor = <<"#000000">>, !.textStyle = "none"]

\* textSvg.indexOf('<defs>'), 1-based; 0 when there is none
IndexOfDefs(doc) ==
    LET hits == { i \in 1..Len(doc) : doc[i].src = "open" /\ doc[i].s = "defs" }
    IN  IF hits = {} THEN 0 ELSE CHOOSE i \in hits : \A j \in hits : i <= j

\* textSvg.substring(k) for the 0-based k = index - 1; substring(-1) is the
\* whole string
SubstringFrom(doc, index) ==
    IF index = 0 THEN doc ELSE SubSeq(doc, index, Len(doc))

\* .replace('</svg>', ''): the first occurrence only
RemoveFirstSvgClose(doc) ==
    LET hits == { i \in 1..Len(doc) : doc[i].src = "close" /\ doc[i].s = "svg" }
    IN  IF hits = {} THEN doc
        ELSE LET k == CHOOSE i \in hits : \A j \in hits : i <= j
             IN  SubSeq(doc, 1, k - 1) \o SubSeq(doc, k + 1, Len(doc))

\* generateEngravingSvg after the logo has been measured and the text-only
\* document has been produced
EngravingDoc(design, logoDims, textSvg) ==
    LET scaledLogo == ScaledLogo(logoDims)
        textSvgContent == RemoveFirstSvgClose(SubstringFrom(textSvg, IndexOfDefs(textSvg)))
    IN  SvgOpen("xmlns=http://www.w3.org/2000/svg xmlns:xlink=http://www.w3.org/1999/xlink")
        \o Open("defs") \o TagEnd
        \o Open("filter") \o IdDef("monochrome") \o TagEnd
        \o Open("feColorMatrix") \o Tpl("type=saturate values=") \o Num(Q(0)) \o SelfEnd
        \o Close("filter")
        \o Close("defs")
        \o textSvgContent
        \o ImageElement(design.logo, scaledLogo, Tpl("filter=") \o IdRef("monochrome"))
        \o Close("svg")

----------------------------------------------------------------------------
(* The render operations as a state machine.  An action is one run of the  *)
(* code between two suspension points: the call up to its first await, or  *)
(* the delivery of one event (image load, fetch response, reader event) up *)
(* to the next await or to the settling of the operation's promise.        *)

Pending == [status |-> "pending", doc |-> <<>>, error |-> ""]
Resolved(doc) == [status |-> "resolved", doc |-> doc, error |-> ""]
Rejected(err) == [status |-> "rejected", doc |-> <<>>, error |-> err]

NoCanvas == [width |-> 0, height |-> 0]

\* A call of getTextElements by a composer: its arguments are recorded; the
\* markup it returns goes into the composed document.
InvokeLayout(design, logoDims) ==
    /\ layDesign' = design
    /\ layBox' = ScaledLogo(logoDims)
    /\ layDone' = TRUE
    /\ UNCHANGED layOut

\* the design generateTextOnlySvg is called with by operation o
TextOnlyArg(o, d) == IF o = "engraving" THEN EngravingDesign(d) ELSE d

\* The promise of generateTextOnlySvg settles (status, doc, err): its caller
\* continues.  generateEngravingSvg composes its document;
\* generateTextOnlyPng wraps the document in a Blob, creates the object URL
\* and starts decoding it; a rejection propagates through the await.
FinishTextOnly(o, d, nat, status, doc, err) ==
    CASE o = "engraving" ->
            /\ pc' = "done"
            /\ result' = IF status = "resolved"
                         THEN Resolved(EngravingDoc(d, nat, doc))
                         ELSE Rejected(err)
            /\ svgString' = doc
            /\ UNCHANGED urlsCreated
      [] o = "png" ->
            IF status = "resolved"
            THEN /\ pc' = "svgImage"
                 /\ svgString' = doc
                 /\ urlsCreated' = urlsCreated + 1
                 /\ UNCHANGED result
            ELSE /\ pc' = "done"
                 /\ result' = Rejected(err)
                 /\ UNCHANGED <<svgString, urlsCreated>>
      [] OTHER ->
            /\ pc' = "done"
            /\ result' = IF status = "resolved" THEN Resolved(doc) ELSE Rejected(err)
            /\ UNCHANGED <<svgString, urlsCreated>>

\* generateTextOnlySvg with the logo check and the blank-text return swapped
StartTextOnly_BlankFirst(o, d, nat, embed) ==
    LET arg == TextOnlyArg(o, d) IN
    /\ composeCalls' = composeCalls + 1
    /\ embedArg' = embed
    /\ IF IsBlank(arg.text)
       THEN /\ FinishTextOnly(o, d, nat, "resolved", MinimalSvg, "")
            /\ UNCHANGED logoDecodes
       ELSE IF arg.logo = ""
       THEN /\ FinishTextOnly(o, d, nat, "rejected", <<>>, "Logo is required for layout.")
            /\ UNCHANGED logoDecodes
       ELSE /\ pc' = "logoInner"
            /\ logoDecodes' = logoDecodes + 1
            /\ UNCHANGED <<result, svgString, urlsCreated>>

\* generateTextOnlySvg without the early return for blank text
StartTextOnly_NoBlankReturn(o, d, nat, embed) ==
    LET arg == TextOnlyArg(o, d) IN
    /\ composeCalls' = composeCalls + 1
    /\ embedArg' = embed
    /\ IF arg.logo = ""
       THEN /\ FinishTextOnly(o, d, nat, "rejected", <<>>, "Logo is required for layout.")
            /\ UNCHANGED logoDecodes
       ELSE /\ pc' = "logoInner"
            /\ logoDecodes' = logoDecodes + 1
            /\ UNCHANGED <<result, svgString, urlsCreated>>

\* generateTextOnlySvg from its call to its first await
StartTextOnly(o, d, nat, embed) ==
    LET arg == TextOnlyArg(o, d) IN
    /\ composeCalls' = composeCalls + 1
    /\ embedArg' = embed
    /\ IF arg.logo = ""
       THEN /\ FinishTextOnly(o, d, nat, "rejected", <<>>, "Logo is required for layout.")
            /\ UNCHANGED logoDecodes
       ELSE IF IsBlank(arg.text)
       THEN /\ FinishTextOnly(o, d, nat, "resolved", MinimalSvg, "")
            /\ UNCHANGED logoDecodes
       ELSE /\ pc' = "logoInner"
            /\ logoDecodes' = logoDecodes + 1
            /\ UNCHANGED <<result, svgString, urlsCreated>>

BaseDesign ==
    [logo |-> "data:logo", text |-> <<>>, font |-> "creepster",
     style |-> "distressed_vintage", textStyle |-> "none",
     textColor |-> <<"#A78BFA">>,
     gradientStartColor |-> <<"#2563EB">>, gradientEndColor |-> <<"#B91C1C">>]

\* the first entry of the history of the editor
initialDesignState == [BaseDesign EXCEPT !.text = <<"B", "O", "O">>]

RenChars == {"A", " ", "<"}

Texts == UNION { [1..n -> RenChars] : n \in 0..MaxTextLen }

\* the colour values of a design: CSS colours, or arbitrary strings
ColorSchemes ==
    { [textColor |-> <<"#A78BFA">>, gradientStartColor |-> <<"#2563EB">>,
       gradientEndColor |-> <<"#B91C1C">>],
      [textColor |-> <<"\"", "<">>, gradientStartColor |-> <<"&">>,
       gradientEndColor |-> <<"'", ">">>] }

Designs ==
    { [logo |-> l, text |-> t, font |-> f, style |-> st, textStyle |-> ts,
       textColor |-> c.textColor, gradientStartColor |-> c.gradientStartColor,
       gradientEndColor |-> c.gradientEndColor] :
      l \in {"", "data:logo"}, t \in Texts, f \in {"bebas_neue", "unlisted"},
      st \in LayoutStyles, ts \in TextStyles, c \in ColorSchemes }

\* what img.width and img.height can be when the logo has loaded; an SVG
\* logo without intrinsic size can load with a dimension of 0
LogoNats == { [width |-> 800, height |-> 600], [width |-> 0, height |-> 600] }

CallTextOnly ==
    /\ pc = "idle"
    /\ \E d \in Designs, nat \in LogoNats, embed \in BOOLEAN :
        /\ cDesign' = d
        /\ logoNat' = nat
        /\ op' = "textOnly"
        /\ StartTextOnly("textOnly", d, nat, embed)
    /\ UNCHANGED <<fontVars, netVars, canvas, urlsRevoked>>
    /\ UNCHANGED <<escVars, layVars, pureVars>>

\* generateTextOnlyPng asking for the link-mode document
CallPng_LinkMode ==
    /\ pc = "idle"
    /\ \E d \in Designs, nat \in LogoNats :
        /\ cDesign' = d
        /\ logoNat' = nat
        /\ op' = "png"
        /\ StartTextOnly("png", d, nat, FALSE)
    /\ UNCHANGED <<fontVars, netVars, canvas, urlsRevoked>>
    /\ UNCHANGED <<escVars, layVars, pureVars>>

CallPng ==
    /\ pc = "idle"
    /\ \E d \in Designs, nat \in LogoNats :
        /\ cDesign' = d
        /\ logoNat' = nat
        /\ op' = "png"
        /\ StartTextOnly("png", d, nat, TRUE)
    /\ UNCHANGED <<fontVars, netVars, canvas, urlsRevoked>>
    /\ UNCHANGED <<escVars, layVars, pureVars>>

CallCombined ==
    /\ pc = "idle"
    /\ \E d \in Designs, nat \in LogoNats :
        /\ cDesign' = d
        /\ logoNat' = nat
        /\ op' = "combined"
        /\ IF d.logo = ""
           THEN /\ pc' = "done"
                /\ result' = Rejected("Logo is required to generate the design SVG.")
                /\ UNCHANGED logoDecodes
           ELSE /\ pc' = "logoOuter"
                /\ logoDecodes' = logoDecodes + 1
                /\ UNCHANGED result
    /\ UNCHANGED <<embedArg, fontVars, netVars, svgString, canvas, urlsCreated,
                   urlsRevoked, composeCalls>>
    /\ UNCHANGED <<escVars, layVars, pureVars>>

CallEngraving ==
    /\ pc = "idle"
    /\ \E d \in Designs, nat \in LogoNats :
        /\ cDesign' = d
        /\ logoNat' = nat
        /\ op' = "engraving"
        /\ IF d.logo = ""
           THEN /\ pc' = "done"
                /\ result' = Rejected("Logo is required for layout.")
                /\ UNCHANGED logoDecodes
           ELSE /\ pc' = "logoOuter"
                /\ logoDecodes' = logoDecodes + 1
                /\ UNCHANGED result
    /\ UNCHANGED <<embedArg, fontVars, netVars, svgString, canvas, urlsCreated,
                   urlsRevoked, composeCalls>>
    /\ UNCHANGED <<escVars, layVars, pureVars>>

\* img.onload of getLogoDimensions, awaited by generateCombinedSvg
LogoLoadedCombined ==
    /\ pc = "logoOuter"
    /\ op = "combined"
    /\ pc' = "done"
    /\ result' = Resolved(CombinedDoc(cDesign, logoNat))
    /\ IF CombinedHasText(cDesign)
       THEN InvokeLayout(cDesign, logoNat)
       ELSE UNCHANGED layVars
    /\ UNCHANGED <<callVars, embedArg, fontVars, netVars, svgString, canvas,
                   logoDecodes, urlsCreated, urlsRevoked, composeCalls>>
    /\ UNCHANGED <<escVars, pureVars>>

\* generateEngravingSvg writing the override into the caller's record
\* instead of a copy
LogoLoadedEngraving_Mutating ==
    /\ pc = "logoOuter"
    /\ op = "engraving"
    /\ cDesign' = EngravingDesign(cDesign)
    /\ StartTextOnly("engraving", cDesign, logoNat, FALSE)
    /\ UNCHANGED <<logoNat, op, fontVars, netVars, canvas, urlsRevoked>>
    /\ UNCHANGED <<escVars, layVars, pureVars>>

\* img.onload of getLogoDimensions, awaited by generateEngravingSvg
LogoLoadedEngraving ==
    /\ pc = "logoOuter"
    /\ op = "engraving"
    /\ StartTextOnly("engraving", cDesign, logoNat, FALSE)
    /\ UNCHANGED <<callVars, fontVars, netVars, canvas, urlsRevoked>>
    /\ UNCHANGED <<escVars, layVars, pureVars>>

\* img.onload of getLogoDimensions, awaited by generateTextOnlySvg
LogoLoadedTextOnly ==
    /\ pc = "logoInner"
    /\ IF embedArg
       THEN /\ pc' = "cssFetch"
            /\ cssFetches' = cssFetches + 1
            /\ fontOutcome' = "pending"
            /\ UNCHANGED <<result, svgString, urlsCreated, layVars>>
       ELSE /\ FinishTextOnly(op, cDesign, logoNat, "resolved",
                   TextOnlyDoc(TextOnlyArg(op, cDesign), logoNat, FALSE, EmptyFont), "")
            /\ InvokeLayout(TextOnlyArg(op, cDesign), logoNat)
            /\ UNCHANGED <<cssFetches, fontOutcome>>
    /\ UNCHANGED <<callVars, embedArg, fontAsset, fontFailAt, binFetches, canvas,
                   logoDecodes, urlsRevoked, composeCalls>>
    /\ UNCHANGED <<escVars, pureVars>>

\* getLogoDimensions without an onerror handler: the error event is
\* delivered and the promise stays pending for ever
LogoError_Unhandled ==
    /\ pc \in {"logoOuter", "logoInner"}
    /\ pc' = "done"
    /\ UNCHANGED <<result, svgString, urlsCreated>>
    /\ UNCHANGED <<callVars, embedArg, fontVars, netVars, canvas, logoDecodes,
                   urlsRevoked, composeCalls>>
    /\ UNCHANGED <<escVars, layVars, pureVars>>

\* img.onerror of getLogoDimensions
LogoError ==
    /\ pc \in {"logoOuter", "logoInner"}
    /\ IF pc = "logoInner"
       THEN FinishTextOnly(op, cDesign, logoNat, "rejected", <<>>,
                "Failed to load logo image to determine dimensions.")
       ELSE /\ pc' = "done"
            /\ result' = Rejected("Failed to load logo image to determine dimensions.")
            /\ UNCHANGED <<svgString, urlsCreated>>
    /\ UNCHANGED <<callVars, embedArg, fontVars, netVars, canvas, logoDecodes,
                   urlsRevoked, composeCalls>>
    /\ UNCHANGED <<escVars, layVars, pureVars>>

\* fetchAndEncodeFont resolved with fd: generateTextOnlySvg builds the style
\* block, the defs and the text and resolves
FontResolved(fd) ==
    /\ fontAsset' = fd
    /\ fontOutcome' = "resolved"
    /\ FinishTextOnly(op, cDesign, logoNat, "resolved",
           TextOnlyDoc(TextOnlyArg(op, cDesign), logoNat, TRUE, fd), "")
    /\ InvokeLayout(TextOnlyArg(op, cDesign), logoNat)

\* the catch block of fetchAndEncodeFont
FontCaught(at) ==
    /\ fontFailAt' = at
    /\ FontResolved(EmptyFont)

FontAwait(next) ==
    /\ pc' = next
    /\ UNCHANGED <<fontVars, result, svgString, urlsCreated, layVars>>

FontFrame ==
    /\ UNCHANGED <<callVars, embedArg, canvas, logoDecodes, cssFetches, urlsRevoked,
                   composeCalls>>
    /\ UNCHANGED <<escVars, pureVars>>

\* fetch(fontUrl) resolved with an ok response
CssFetchOk ==
    /\ pc = "cssFetch"
    /\ FontAwait("cssText")
    /\ UNCHANGED binFetches
    /\ FontFrame

\* fetch(fontUrl) rejected, or its response is not ok
CssFetchFail ==
    /\ pc = "cssFetch"
    /\ \E at \in {"cssFetchRejected", "cssNotOk"} : FontCaught(at)
    /\ UNCHANGED binFetches
    /\ FontFrame

\* cssResponse.text() resolved with a body that names a woff2 file
CssTextWoff2 ==
    /\ pc = "cssText"
    /\ FontAwait("binFetch")
    /\ binFetches' = binFetches + 1
    /\ FontFrame

\* fetchAndEncodeFont fetching a font file although the stylesheet names none
CssTextNoWoff2_FetchAnyway ==
    /\ pc = "cssText"
    /\ fontFailAt' = "noWoff2Url"
    /\ FontResolved(EmptyFont)
    /\ binFetches' = binFetches + 1
    /\ FontFrame

\* cssResponse.text() resolved with a body without a woff2 URL
CssTextNoWoff2 ==
    /\ pc = "cssText"
    /\ fontFailAt' = "noWoff2Url"
    /\ FontResolved(EmptyFont)
    /\ UNCHANGED binFetches
    /\ FontFrame

\* cssResponse.text() rejected
CssTextFail ==
    /\ pc = "cssText"
    /\ FontCaught("cssBody")
    /\ UNCHANGED binFetches
    /\ FontFrame

\* fetch(fontFileUrl) resolved with an ok response
BinFetchOk ==
    /\ pc = "binFetch"
    /\ FontAwait("binBlob")
    /\ UNCHANGED binFetches
    /\ FontFrame

\* fetch(fontFileUrl) rejected, or its response is not ok
BinFetchFail ==
    /\ pc = "binFetch"
    /\ \E at \in {"binFetchRejected", "binNotOk"} : FontCaught(at)
    /\ UNCHANGED binFetches
    /\ FontFrame

\* fontFileResponse.blob() resolved: the FileReader is started and its
\* promise is returned, not awaited, from inside the try block
BlobOk ==
    /\ pc = "binBlob"
    /\ FontAwait("reader")
    /\ UNCHANGED binFetches
    /\ FontFrame

\* fontFileResponse.blob() rejected
BlobFail ==
    /\ pc = "binBlob"
    /\ FontCaught("blob")
    /\ UNCHANGED binFetches
    /\ FontFrame

\* reader.onloadend after a successful read
ReaderLoadEnd ==
    /\ pc = "reader"
    /\ UNCHANGED fontFailAt
    /\ FontResolved([dataUri |-> <<"data:font/woff2;base64,d09GMg">>,
                     format |-> <<"woff2">>])
    /\ UNCHANGED binFetches
    /\ FontFrame

\* reader.onerror (the loadend that follows finds the promise settled): the
\* returned promise rejects outside the try block, so does fetchAndEncodeFont
\* and, through its await, generateTextOnlySvg
ReaderError ==
    /\ pc = "reader"
    /\ fontFailAt' = "reader"
    /\ fontOutcome' = "rejected"
    /\ UNCHANGED fontAsset
    /\ FinishTextOnly(op, cDesign, logoNat, "rejected", <<>>, "ProgressEvent")
    /\ UNCHANGED layVars
    /\ UNCHANGED binFetches
    /\ FontFrame

scale == 2

\* img.onload of generateTextOnlyPng; getContext('2d') returns a context or null
SvgImageLoaded ==
    /\ pc = "svgImage"
    /\ canvas' = [width |-> 1000 * scale, height |-> 1000 * scale]
    /\ urlsRevoked' = urlsRevoked + 1
    /\ pc' = "done"
    /\ \E ctx \in BOOLEAN :
        result' = IF ctx
                  THEN Resolved(Tpl("data:image/png"))
                  ELSE Rejected("Could not get canvas context for PNG generation.")
    /\ UNCHANGED <<callVars, embedArg, fontVars, netVars, svgString, logoDecodes,
                   urlsCreated, composeCalls>>
    /\ UNCHANGED <<escVars, layVars, pureVars>>

\* img.onerror of generateTextOnlyPng without its revokeObjectURL
SvgImageError_NoRevoke ==
    /\ pc = "svgImage"
    /\ pc' = "done"
    /\ result' = Rejected("Failed to load SVG image for PNG conversion. It may contain unsupported features.")
    /\ UNCHANGED <<callVars, embedArg, fontVars, netVars, svgString, canvas,
                   logoDecodes, urlsCreated, urlsRevoked, composeCalls>>
    /\ UNCHANGED <<escVars, layVars, pureVars>>

\* img.onerror of generateTextOnlyPng
SvgImageError ==
    /\ pc = "svgImage"
    /\ urlsRevoked' = urlsRevoked + 1
    /\ pc' = "done"
    /\ result' = Rejected("Failed to load SVG image for PNG conversion. It may contain unsupported features.")
    /\ UNCHANGED <<callVars, embedArg, fontVars, netVars, svgString, canvas,
                   logoDecodes, urlsCreated, composeCalls>>
    /\ UNCHANGED <<escVars, layVars, pureVars>>

Init ==
    /\ cDesign = BaseDesign
    /\ logoNat = [width |-> 0, height |-> 0]
    /\ op = "none"
    /\ embedArg = FALSE
    /\ pc = "idle"
    /\ fontAsset = EmptyFont
    /\ fontOutcome = "none"
    /\ fontFailAt = "none"
    /\ result = Pending
    /\ svgString = <<>>
    /\ canvas = NoCanvas
    /\ logoDecodes = 0
    /\ cssFetches = 0
    /\ binFetches = 0
    /\ urlsCreated = 0
    /\ urlsRevoked = 0
    /\ composeCalls = 0
    /\ escIn = <<>>
    /\ escOut = <<>>
    /\ escDone = FALSE
    /\ layDesign = BaseDesign
    /\ layBox = [width |-> Q(400), height |-> Q(300)]
    /\ layOut = <<>>
    /\ layDone = FALSE
    /\ sclDims = [width |-> 0, height |-> 0]
    /\ sclBox = [width |-> [bits |-> <<>>, exp |-> 0], height |-> [bits |-> <<>>, exp |-> 0]]
    /\ sclDone = FALSE
    /\ styIn = [style |-> "none", textColor |-> <<>>, gradientStart |-> <<>>, gradientEnd |-> <<>>, id |-> ""]
    /\ styAttrs = <<>>
    /\ styDefs = <<>>
    /\ styDone = FALSE
    /\ renders = [r \in {1, 2} |-> [op |-> "none", design |-> BaseDesign, pc |-> "idle",
                                    concurrent |-> FALSE, doc |-> <<>>]]
    /\ history = <<initialDesignState>>
    /\ historyIndex = 0
    /\ readers = <<>>
    /\ logoFileRef = "null"
    /\ sampleLogo = "pending"
    /\ isLoading = FALSE
    /\ error = "null"
    /\ generatedImage = "null"
    /\ requests = 0
    /\ lastOp = "none"
    /\ lastNewState = initialDesignState

Next ==
    \/ CallTextOnly
    \/ CallPng
    \/ CallCombined
    \/ CallEngraving
    \/ LogoLoadedCombined
    \/ LogoLoadedEngraving
    \/ LogoLoadedTextOnly
    \/ LogoError
    \/ CssFetchOk
    \/ CssFetchFail
    \/ CssTextWoff2
    \/ CssTextNoWoff2
    \/ CssTextFail
    \/ BinFetchOk
    \/ BinFetchFail
    \/ BlobOk
    \/ BlobFail
    \/ ReaderLoadEnd
    \/ ReaderError
    \/ SvgImageLoaded
    \/ SvgImageError

Spec == Init /\ [][Next]_vars

----------------------------------------------------------------------------
(* Reading a produced document *)

\* the least index k >= i of doc with P(doc[k]); Len(doc) + 1 if there is none
FirstFrom(doc, i, P(_)) ==
    LET hits == { k \in i..Len(doc) : P(doc[k]) }
    IN  IF hits = {} THEN Len(doc) + 1 ELSE CHOOSE k \in hits : \A j \in hits : k <= j

\* the strings of a run of tokens
Strings(toks) == [k \in 1..Len(toks) |-> toks[k].s]

\* the pieces of the given source in a run of tokens
PiecesOf(toks, src) ==
    LET FromSrc(t) == t.src = src IN Strings(SelectSeq(toks, FromSrc))

\* the maximal run of value pieces that starts at token i
ValRun(doc, i) ==
    LET NotVal(t) == t.src # "val"
    IN  Strings(SubSeq(doc, i, FirstFrom(doc, i, NotVal) - 1))

\* the attributes of the element opened at token i - 1: the tokens up to the
\* end of its opening tag
TagTokens(doc, i) ==
    LET Ends(t) == t.src \in {"tagend", "selfend"}
    IN  SubSeq(doc, i, FirstFrom(doc, i, Ends) - 1)

\* the elements of a finite set of numbers, in increasing order
RECURSIVE Sorted(_)
Sorted(S) ==
    IF S = {} THEN <<>>
    ELSE LET m == CHOOSE x \in S : \A y \in S : x <= y
         IN  <<m>> \o Sorted(S \ {m})

\* The character content of every text / textPath element of a markup, in
\* document order: the value pieces that follow the end of an opening tag.
TextContents(doc) ==
    LET starts == Sorted({ i \in 1..(Len(doc) - 1) :
                    /\ doc[i].src = "tagend"
                    /\ doc[i + 1].src \in {"val", "close"}
                    /\ (doc[i + 1].src = "close" => doc[i + 1].s \in {"text", "textPath"}) })
    IN  [k \in 1..Len(starts) |-> ValRun(doc, starts[k] + 1)]

\* the <style> blocks of a document, each from its opening to its closing tag
StyleBlocks(doc) ==
    LET ClosesStyle(t) == t.src = "close" /\ t.s = "style"
        starts == Sorted({ i \in 1..Len(doc) : doc[i].src = "open" /\ doc[i].s = "style" })
    IN  [k \in 1..Len(starts) |->
            SubSeq(doc, starts[k], FirstFrom(doc, starts[k], ClosesStyle))]

\* Every opened element is closed in order and the document has one root.
\* tags: the opening and closing tags of the document, empty elements
\* (<n ... />) left out; depth[i]: the tags open after tag i.
WellFormed(doc) ==
    LET IsTag(t) == t.src \in {"open", "selfend", "close"}
        all == SelectSeq(doc, IsTag)
        keep == { i \in 1..Len(all) :
                    /\ all[i].src # "selfend"
                    /\ ~(all[i].src = "open" /\ i < Len(all) /\ all[i + 1].src = "selfend") }
        idx == Sorted(keep)
        tags == [k \in 1..Len(idx) |-> all[idx[k]]]
        n == Len(tags)
        depth == [i \in 0..n |->
                    Cardinality({ j \in 1..i : tags[j].src = "open" })
                    - Cardinality({ j \in 1..i : tags[j].src = "close" })]
    IN  /\ n > 0
        /\ \A i \in 1..Len(all) : all[i].src = "selfend" => (i > 1 /\ all[i - 1].src = "open")
        /\ depth[n] = 0
        /\ \A i \in 1..(n - 1) : depth[i] > 0
        /\ \A i \in 1..n :
              tags[i].src = "close" =>
                  \E j \in 1..(i - 1) :
                      /\ tags[j].src = "open"
                      /\ tags[j].s = tags[i].s
                      /\ depth[j] = depth[i] + 1
                      /\ \A k \in (j + 1)..(i - 1) : depth[k] > depth[i]

Count(doc, src, name) ==
    Cardinality({ i \in 1..Len(doc) : doc[i].src = src /\ doc[i].s = name })

DefinedIds(doc) == { doc[i].s : i \in { j \in 1..Len(doc) : doc[j].src = "iddef" } }

ReferencedIds(doc) == { doc[i].s : i \in { j \in 1..Len(doc) : doc[j].src = "idref" } }

\* doc holds sub as a contiguous run of tokens
Contains(doc, sub) ==
    \E i \in 1..(Len(doc) - Len(sub) + 1) : SubSeq(doc, i, i + Len(sub) - 1) = sub

PathIds ==
    {"text-path-lower", "text-path-upper", "text-path-upper-oval",
     "text-path-lower-oval", "text-path-top", "text-path-bottom"}

LogoRequiredErrors ==
    {"Logo is required for layout.", "Logo is required to generate the design SVG."}

----------------------------------------------------------------------------
(* Properties of the render operations *)

\* C1: for a design without a logo, generateTextOnlySvg (either embed flag,
\* any text), generateCombinedSvg, generateEngravingSvg and
\* generateTextOnlyPng reject with a logo-required error, and no logo decode,
\* font fetch or object URL has been started.
C1_LogoRequired ==
    (op # "none" /\ cDesign.logo = "") =>
        /\ pc = "done"
        /\ result.status = "rejected"
        /\ result.error \in LogoRequiredErrors
        /\ logoDecodes = 0
        /\ cssFetches = 0
        /\ binFetches = 0
        /\ urlsCreated = 0

\* C1 witness: the PNG export of a design without logo and with blank text
\* has been rejected.
C1_Witness ==
    /\ op = "png"
    /\ cDesign.logo = ""
    /\ cDesign.text = <<>>
    /\ result.status = "rejected"
    /\ result.error = "Logo is required for layout."

\* C2: fetchAndEncodeFont never rejects; whenever one of its steps fails, its
\* promise resolves with the empty asset.
C2_FontResolverNeverRejects ==
    /\ fontOutcome # "rejected"
    /\ (fontFailAt # "none" => fontOutcome = "resolved" /\ fontAsset = EmptyFont)

\* C3: when the font resolver yields an empty dataUri,
\* generateTextOnlySvg(design, true) resolves and its document holds exactly
\* one <style> block: the import of the font URL with '&' escaped, the block
\* generateTextOnlySvg(design, false) emits for the same design.
C3_EmbedFallback ==
    (op = "textOnly" /\ embedArg /\ fontOutcome = "resolved" /\ fontAsset.dataUri = <<>>) =>
        /\ result.status = "resolved"
        /\ Len(StyleBlocks(result.doc)) = 1
        /\ LET block == StyleBlocks(result.doc)[1]
           IN  /\ Contains(block, Tpl("@import url('"))
               /\ PiecesOf(block, "url") # <<>>
               /\ XmlSafe(PiecesOf(block, "url"))
               /\ XmlDecode(PiecesOf(block, "url")) = FontUrl(FontName(cDesign.font))
               /\ <<block>> = StyleBlocks(TextOnlyDoc(cDesign, logoNat, FALSE, EmptyFont))

\* C3 witness: an embed-mode render whose font stylesheet fetch failed has
\* resolved.
C3_Witness ==
    /\ op = "textOnly"
    /\ embedArg
    /\ fontFailAt = "cssFetchRejected"
    /\ fontAsset.dataUri = <<>>
    /\ result.status = "resolved"
    /\ ~IsBlank(cDesign.text)

\* C4: in a document of generateCombinedSvg with non-blank text, every id
\* the text elements reference by url(#...) or href is the id of an element
\* of that document.
C4_SharedIdNamespace ==
    (op = "combined" /\ result.status = "resolved" /\ ~IsBlank(cDesign.text)) =>
        ReferencedIds(result.doc) \subseteq DefinedIds(result.doc)

\* C5: the document of generateEngravingSvg renders all text with fill
\* #000000 and no style-specific stroke, filter or gradient, whatever the
\* design's textColor and textStyle, and its image element references a
\* filter whose only primitive is a saturate colour matrix with value 0.
C5_EngravingMonochrome ==
    (op = "engraving" /\ result.status = "resolved") =>
        LET doc == result.doc IN
        /\ \A i \in 1..Len(doc) :
              /\ (doc[i].src = "open" /\ doc[i].s \in {"text", "textPath"}
                    /\ (doc[i].s = "text" => doc[i + 1].src # "tagend")) =>
                    LET attrs == TagTokens(doc, i + 1) IN
                    /\ Contains(attrs, Tpl("fill=") \o Val(<<"#000000">>))
                    /\ PiecesOf(attrs, "val") = <<"#000000">>
                    /\ \A k \in 1..Len(attrs) :
                          /\ attrs[k].src = "idref" => attrs[k].s \in PathIds
                          /\ attrs[k].src = "tpl" =>
                                attrs[k].s \in {"fill=", "x=", "y=", "font-family='",
                                                "', sans-serif font-size=50px",
                                                "startOffset=50% text-anchor=middle",
                                                "text-anchor=middle",
                                                "text-anchor=end dominant-baseline=middle",
                                                "text-anchor=start dominant-baseline=middle"}
        /\ DefinedIds(doc) \subseteq PathIds \cup {"monochrome"}
        /\ ReferencedIds(doc) \subseteq PathIds \cup {"monochrome"}
        /\ Count(doc, "open", "linearGradient") = 0
        /\ Count(doc, "open", "filter") = 1
        /\ Contains(doc, Open("filter") \o IdDef("monochrome") \o TagEnd
                         \o Open("feColorMatrix") \o Tpl("type=saturate values=")
                         \o Num(Q(0)) \o SelfEnd \o Close("filter"))
        /\ Count(doc, "open", "image") = 1
        /\ \A i \in 1..Len(doc) :
              (doc[i].src = "open" /\ doc[i].s = "image") =>
                  PiecesOf(TagTokens(doc, i + 1), "idref") = <<"monochrome">>

\* C5 witness: an engraving of a design with a styled, non-black text has
\* been produced.
C5_Witness ==
    /\ op = "engraving"
    /\ result.status = "resolved"
    /\ cDesign.textStyle = "neon"
    /\ cDesign.textColor # <<"#000000">>
    /\ cDesign.style = "full_circle"
    /\ ~IsBlank(cDesign.text)

\* C6: the document of generateEngravingSvg is well-formed, also for empty
\* or whitespace-only text: one <svg> opening tag, one </svg> closing tag,
\* every opened element closed in order.
C6_EngravingWellFormed ==
    (op = "engraving" /\ result.status = "resolved") =>
        /\ Count(result.doc, "open", "svg") = 1
        /\ Count(result.doc, "close", "svg") = 1
        /\ WellFormed(result.doc)

\* C7: for a design with a logo and empty or whitespace-only text,
\* generateTextOnlySvg resolves, for every embed flag, layout, style, font
\* and colours, with a 1000x1000 document without text, textPath or path
\* element.
C7_BlankTextMinimal ==
    (op = "textOnly" /\ cDesign.logo # "" /\ IsBlank(cDesign.text)) =>
        /\ pc = "done"
        /\ result.status = "resolved"
        /\ WellFormed(result.doc)
        /\ Count(result.doc, "open", "svg") = 1
        /\ Contains(result.doc, Tpl("width=") \o Num(Q(1000)) \o Tpl("height=") \o Num(Q(1000)))
        /\ \A n \in {"text", "textPath", "path"} : Count(result.doc, "open", n) = 0

\* C7 witness: an embed-mode render of a whitespace-only text has resolved.
C7_Witness ==
    /\ op = "textOnly"
    /\ embedArg
    /\ cDesign.logo # ""
    /\ cDesign.text = <<" ">>
    /\ cDesign.textStyle = "gradient"
    /\ result.status = "resolved"

\* C10: no colour or text of the design appears unescaped in a produced
\* document: every run of pieces that come from a colour or text value
\* holds no raw '<', '>', quote or apostrophe, and '&' only as the start of
\* an entity.
C10_ValuesEscaped ==
    (result.status = "resolved" /\ op \in {"textOnly", "combined", "engraving"}) =>
        \A i \in 1..Len(result.doc) :
            (result.doc[i].src = "val" /\ (i = 1 \/ result.doc[i - 1].src # "val")) =>
                XmlSafe(ValRun(result.doc, i))

----------------------------------------------------------------------------
(* Specification of getTextElements as a pure function: the text is built  *)
(* one character at a time, then the layout engine is applied.  The        *)
(* composers call it with non-blank text only.                             *)

LayAlphabet == {"A", "B", "C", " "}

LayBoxes == { [width |-> Q(400), height |-> Q(300)],
              [width |-> Q(75),  height |-> Q(400)] }

LayInit ==
    /\ \E st \in LayoutStyles : layDesign = [BaseDesign EXCEPT !.style = st]
    /\ layBox \in LayBoxes
    /\ layOut = <<>>
    /\ layDone = FALSE
    /\ escIn = <<>>
    /\ escOut = <<>>
    /\ escDone = FALSE
    /\ cDesign = BaseDesign
    /\ logoNat = [width |-> 0, height |-> 0]
    /\ op = "none"
    /\ embedArg = FALSE
    /\ pc = "idle"
    /\ fontAsset = EmptyFont
    /\ fontOutcome = "none"
    /\ fontFailAt = "none"
    /\ result = Pending
    /\ svgString = <<>>
    /\ canvas = NoCanvas
    /\ logoDecodes = 0
    /\ cssFetches = 0
    /\ binFetches = 0
    /\ urlsCreated = 0
    /\ urlsRevoked = 0
    /\ composeCalls = 0
    /\ sclDims = [width |-> 0, height |-> 0]
    /\ sclBox = [width |-> [bits |-> <<>>, exp |-> 0], height |-> [bits |-> <<>>, exp |-> 0]]
    /\ sclDone = FALSE
    /\ styIn = [style |-> "none", textColor |-> <<>>, gradientStart |-> <<>>, gradientEnd |-> <<>>, id |-> ""]
    /\ styAttrs = <<>>
    /\ styDefs = <<>>
    /\ styDone = FALSE
    /\ renders = [r \in {1, 2} |-> [op |-> "none", design |-> BaseDesign, pc |-> "idle",
                                    concurrent |-> FALSE, doc |-> <<>>]]
    /\ history = <<initialDesignState>>
    /\ historyIndex = 0
    /\ readers = <<>>
    /\ logoFileRef = "null"
    /\ sampleLogo = "pending"
    /\ isLoading = FALSE
    /\ error = "null"
    /\ generatedImage = "null"
    /\ requests = 0
    /\ lastOp = "none"
    /\ lastNewState = initialDesignState

LayAppend ==
    /\ ~layDone
    /\ Len(layDesign.text) < MaxLayLen
    /\ \E c \in LayAlphabet : layDesign' = [layDesign EXCEPT !.text = Append(@, c)]
    /\ UNCHANGED <<layBox, layOut, layDone>>
    /\ UNCHANGED <<escVars, renVars, pureVars>>

LayApply ==
    /\ ~layDone
    /\ ~IsBlank(layDesign.text)
    /\ layOut' = getTextElements(layDesign, layBox, Center)
    /\ layDone' = TRUE
    /\ UNCHANGED <<layDesign, layBox>>
    /\ UNCHANGED <<escVars, renVars, pureVars>>

LayNext == LayAppend \/ LayApply

SpecLayout == LayInit /\ [][LayNext]_vars

\* The whitespace-separated words of a text: its maximal runs of
\* non-whitespace characters.
RECURSIVE WordsFrom(_, _, _)
WordsFrom(s, i, cur) ==
    IF i > Len(s) THEN (IF cur = <<>> THEN <<>> ELSE <<cur>>)
    ELSE IF s[i] \in Whitespace
         THEN (IF cur = <<>> THEN <<>> ELSE <<cur>>) \o WordsFrom(s, i + 1, <<>>)
         ELSE WordsFrom(s, i + 1, Append(cur, s[i]))

Words(text) == WordsFrom(text, 1, <<>>)

\* C8: in the full_circle and split layouts the first half holds the first
\* ceil(N/2) of the N whitespace-separated words of the text, joined by
\* single spaces, and the second half holds the remaining floor(N/2) words.
C8_WordSplit ==
    (layDone /\ layDesign.style \in {"full_circle", "split"}) =>
        LET w == Words(layDesign.text)
            n == Len(w)
            k == (n + 1) \div 2
        IN  TextContents(layOut) = << JoinSp(SubSeq(w, 1, k)), JoinSp(SubSeq(w, k + 1, n)) >>

----------------------------------------------------------------------------
(* Specification of escapeXml as a pure function: the argument is built    *)
(* one character at a time, then the function is applied.                  *)

EscAlphabet == XmlSpecial \cup {"l", "t", ";"}

EscInit ==
    /\ escIn = <<>>
    /\ escOut = <<>>
    /\ escDone = FALSE
    /\ layDesign = BaseDesign
    /\ layBox = [width |-> Q(400), height |-> Q(300)]
    /\ layOut = <<>>
    /\ layDone = FALSE
    /\ cDesign = BaseDesign
    /\ logoNat = [width |-> 0, height |-> 0]
    /\ op = "none"
    /\ embedArg = FALSE
    /\ pc = "idle"
    /\ fontAsset = EmptyFont
    /\ fontOutcome = "none"
    /\ fontFailAt = "none"
    /\ result = Pending
    /\ svgString = <<>>
    /\ canvas = NoCanvas
    /\ logoDecodes = 0
    /\ cssFetches = 0
    /\ binFetches = 0
    /\ urlsCreated = 0
    /\ urlsRevoked = 0
    /\ composeCalls = 0
    /\ sclDims = [width |-> 0, height |-> 0]
    /\ sclBox = [width |-> [bits |-> <<>>, exp |-> 0], height |-> [bits |-> <<>>, exp |-> 0]]
    /\ sclDone = FALSE
    /\ styIn = [style |-> "none", textColor |-> <<>>, gradientStart |-> <<>>, gradientEnd |-> <<>>, id |-> ""]
    /\ styAttrs = <<>>
    /\ styDefs = <<>>
    /\ styDone = FALSE
    /\ renders = [r \in {1, 2} |-> [op |-> "none", design |-> BaseDesign, pc |-> "idle",
                                    concurrent |-> FALSE, doc |-> <<>>]]
    /\ history = <<initialDesignState>>
    /\ historyIndex = 0
    /\ readers = <<>>
    /\ logoFileRef = "null"
    /\ sampleLogo = "pending"
    /\ isLoading = FALSE
    /\ error = "null"
    /\ generatedImage = "null"
    /\ requests = 0
    /\ lastOp = "none"
    /\ lastNewState = initialDesignState

EscAppend ==
    /\ ~escDone
    /\ Len(escIn) < MaxEscLen
    /\ \E c \in EscAlphabet : escIn' = Append(escIn, c)
    /\ UNCHANGED <<escOut, escDone>>
    /\ UNCHANGED <<layVars, renVars, pureVars>>

EscApply ==
    /\ ~escDone
    /\ escOut' = escapeXml(escIn)
    /\ escDone' = TRUE
    /\ UNCHANGED escIn
    /\ UNCHANGED <<layVars, renVars, pureVars>>

EscNext == EscAppend \/ EscApply

SpecEscape == EscInit /\ [][EscNext]_vars

\* C9: escapeXml(s) contains none of '<', '>', apostrophe or quote, contains
\* '&' only as the start of one of the five entities, and decoding the five
\* entities in escapeXml(s) yields exactly s.
C9_EscapeRoundTrip ==
    escDone => /\ XmlSafe(escOut)
               /\ XmlDecode(escOut) = escIn

\* C9 witness: a string that already looks like an entity has been escaped.
C9_Witness ==
    /\ escDone
    /\ escIn = <<"&", "l", "t", ";">>
    /\ escOut = <<"&", "a", "m", "p", ";", "l", "t", ";">>

----------------------------------------------------------------------------
(* IEEE 754 binary64 arithmetic of the scaling step.  A positive double is  *)
(* [bits, exp]: bits are the 53 bits of its significand, most significant  *)
(* first (the first bit is 1), and its value is (bits read as an integer)   *)
(* * 2^exp.  Zero is DZero.  Results are rounded to nearest, ties to even.  *)

Precision == 53

DZero == [bits |-> <<>>, exp |-> 0]

\* the binary digits of n > 0, most significant first; <<>> for 0
RECURSIVE Bin(_)
Bin(n) == IF n = 0 THEN <<>> ELSE Append(Bin(n \div 2), n % 2)

Zeros(n) == [i \in 1..n |-> 0]

\* bits + 1 as <<bits, carried>>: carried is 1 when the sum needs one bit more
Increment(bits) ==
    LET zeros == { i \in 1..Len(bits) : bits[i] = 0 }
    IN  IF zeros = {}
        THEN [bits |-> <<1>> \o Zeros(Len(bits) - 1), carried |-> 1]
        ELSE LET p == CHOOSE i \in zeros : \A j \in zeros : j <= i
             IN  [bits |-> [i \in 1..Len(bits) |->
                               IF i < p THEN bits[i] ELSE IF i = p THEN 1 ELSE 0],
                  carried |-> 0]

\* Round the number (all read as an integer, first bit 1) * 2^exp, followed
\* by a non-zero remainder below its last bit iff sticky, to 53 bits.
RoundBits(all, sticky, exp) ==
    IF Len(all) <= Precision
    THEN [bits |-> all \o Zeros(Precision - Len(all)), exp |-> exp - (Precision - Len(all))]
    ELSE LET kept == SubSeq(all, 1, Precision)
             guard == all[Precision + 1]
             rest == sticky \/ \E i \in (Precision + 2)..Len(all) : all[i] = 1
             up == guard = 1 /\ (rest \/ kept[Precision] = 1)
             dropped == Len(all) - Precision
             inc == Increment(kept)
         IN  IF up THEN [bits |-> inc.bits, exp |-> exp + dropped + inc.carried]
             ELSE [bits |-> kept, exp |-> exp + dropped]

\* the double of a non-negative integer below 2^53
FromInt(n) == IF n = 0 THEN DZero ELSE RoundBits(Bin(n), FALSE, 0)

RECURSIVE ShiftUpTo(_, _)
\* the least k >= 0 with a * 2^k >= b
ShiftUpTo(a, b) == IF a >= b THEN 0 ELSE 1 + ShiftUpTo(2 * a, b)

\* 2^i mod B, by repeated squaring
RECURSIVE Pow2Mod(_, _)
Pow2Mod(i, B) ==
    IF i = 0 THEN 1 % B
    ELSE LET half == Pow2Mod(i \div 2, B)
         IN  (half * half * (IF i % 2 = 1 THEN 2 ELSE 1)) % B

\* a / b for integers a > 0, b > 0: long division, bit by bit.  The dividend
\* and the divisor are first aligned (A = a * 2^k, B = b * 2^j, one of k, j
\* is 0) so that the quotient A / B is in [1, 2).  rem(i) is the remainder
\* left after i bits of the fraction: (A * 2^i) mod B.
FDiv(a, b) ==
    LET k == ShiftUpTo(a, b)
        t == ShiftUpTo(b, a + 1)
        j == IF t > 0 THEN t - 1 ELSE 0
        A == a * (2 ^ k)
        B == b * (2 ^ j)
        shift == j - k
        rem(i) == ((A % B) * Pow2Mod(i, B)) % B
        quot == [i \in 1..(Precision + 1) |->
                    IF i = 1 THEN 1 ELSE IF 2 * rem(i - 2) >= B THEN 1 ELSE 0]
    IN  RoundBits(quot, rem(Precision) # 0, shift - Precision)

LimbBits == 14

\* the number a sequence of at most LimbBits bits denotes
RECURSIVE BitsValue(_)
BitsValue(bits) ==
    IF bits = <<>> THEN 0
    ELSE 2 * BitsValue(SubSeq(bits, 1, Len(bits) - 1)) + bits[Len(bits)]

\* v < 2^LimbBits as LimbBits bits
LimbOf(v) == Zeros(LimbBits - Len(Bin(v))) \o Bin(v)

\* bits without its leading zeros
StripZeros(bits) ==
    LET ones == { i \in 1..Len(bits) : bits[i] = 1 }
    IN  IF ones = {} THEN <<>>
        ELSE SubSeq(bits, CHOOSE i \in ones : \A k \in ones : i <= k, Len(bits))

\* n * x for an integer 0 <= n < 2^16 and a double x: the exact product of
\* n and the significand, computed on four limbs of LimbBits bits from the
\* least significant one with the carry passed on, then rounded
FMulInt(n, x) ==
    IF n = 0 \/ x = DZero THEN DZero
    ELSE LET padded == Zeros(4 * LimbBits - Precision) \o x.bits
             limb(i) == BitsValue(SubSeq(padded, (4 - i) * LimbBits + 1, (5 - i) * LimbBits))
             p1 == n * limb(1)
             p2 == n * limb(2) + (p1 \div (2 ^ LimbBits))
             p3 == n * limb(3) + (p2 \div (2 ^ LimbBits))
             p4 == n * limb(4) + (p3 \div (2 ^ LimbBits))
             product == Bin(p4 \div (2 ^ LimbBits))
                        \o LimbOf(p4 % (2 ^ LimbBits)) \o LimbOf(p3 % (2 ^ LimbBits))
                        \o LimbOf(p2 % (2 ^ LimbBits)) \o LimbOf(p1 % (2 ^ LimbBits))
         IN  RoundBits(StripZeros(product), FALSE, x.exp)

\* x <= y
FLe(x, y) ==
    IF x = DZero THEN TRUE
    ELSE IF y = DZero THEN FALSE
    ELSE IF x.exp # y.exp THEN x.exp < y.exp
    ELSE LET diff == { i \in 1..Precision : x.bits[i] # y.bits[i] }
         IN  diff = {} \/ LET p == CHOOSE i \in diff : \A k \in diff : i <= k
                          IN  x.bits[p] < y.bits[p]

FMinOf(S) == CHOOSE x \in S : \A y \in S : FLe(x, y)
FMaxOf(S) == CHOOSE x \in S : \A y \in S : FLe(y, x)

\* C13: a compose operation that has decoded a logo of width 0 or height 0
\* does not resolve with a document: it is rejected.
C13_ZeroLogoRejected ==
    (op \in {"textOnly", "combined", "engraving"} /\ pc = "done" /\ logoDecodes > 0
        /\ (logoNat.width = 0 \/ logoNat.height = 0)) =>
        result.status = "rejected"

RasterErrors ==
    {"Could not get canvas context for PNG generation.",
     "Failed to load SVG image for PNG conversion. It may contain unsupported features."}

\* C15: generateTextOnlyPng creates at most one object URL and revokes it
\* exactly once by the time it settles: after the draw, when the decode of
\* the SVG image fails and when no drawing context is obtained; it creates
\* none when generateTextOnlySvg rejects; no other operation creates one.
C15_ObjectUrlReleased ==
    /\ urlsRevoked <= urlsCreated
    /\ urlsCreated <= 1
    /\ op # "png" => urlsCreated = 0
    /\ (op = "png" /\ pc # "done") => urlsRevoked = 0
    /\ (op = "png" /\ pc = "done") =>
          /\ urlsRevoked = urlsCreated
          /\ result.status = "resolved" => urlsRevoked = 1
          /\ (result.status = "rejected" /\ result.error \in RasterErrors) => urlsRevoked = 1
          /\ (result.status = "rejected" /\ result.error \notin RasterErrors) => urlsCreated = 0

\* C15 witness: a PNG export has been rejected because no drawing context
\* was obtained, and its object URL has been revoked.
C15_Witness ==
    /\ op = "png"
    /\ result.status = "rejected"
    /\ result.error = "Could not get canvas context for PNG generation."
    /\ urlsCreated = 1
    /\ urlsRevoked = 1

\* C16: generateTextOnlyPng calls generateTextOnlySvg once, with
\* embedFont = true; the object URL and the image exist only once that call
\* has resolved; the canvas exists only after the image has loaded and is
\* 2000 x 2000; the operation resolves only with the canvas drawn.
C16_RasterOrder ==
    op = "png" =>
        /\ composeCalls = 1
        /\ embedArg
        /\ pc \in {"logoInner", "cssFetch", "cssText", "binFetch", "binBlob", "reader"} =>
              (urlsCreated = 0 /\ svgString = <<>> /\ canvas = NoCanvas /\ result = Pending)
        /\ urlsCreated = 1 => (svgString # <<>> /\ pc \in {"svgImage", "done"})
        /\ pc = "svgImage" => (urlsCreated = 1 /\ canvas = NoCanvas /\ result = Pending)
        /\ canvas # NoCanvas =>
              (canvas = [width |-> 2000, height |-> 2000] /\ pc = "done" /\ urlsCreated = 1)
        /\ result.status = "resolved" =>
              (canvas = [width |-> 2000, height |-> 2000] /\ result.doc = Tpl("data:image/png"))

\* C16 witness: a PNG export whose font was embedded has resolved.
C16_Witness ==
    /\ op = "png"
    /\ result.status = "resolved"
    /\ fontAsset.dataUri # <<>>
    /\ canvas = [width |-> 2000, height |-> 2000]
    /\ composeCalls = 1

LinkMode == op \in {"combined", "engraving"} \/ (op = "textOnly" /\ ~embedArg)

\* C17: generateTextOnlySvg(design, false), generateCombinedSvg and
\* generateEngravingSvg never start a fetch of the font stylesheet or of a
\* font file, and every <style> block of their document is the import of
\* the font URL with each '&' written as '&amp;'; the document has one such
\* block whenever it has text, and always for generateCombinedSvg.
C17_LinkModeNoFetch ==
    LinkMode =>
        /\ cssFetches = 0
        /\ binFetches = 0
        /\ fontOutcome = "none"
        /\ result.status = "resolved" =>
              LET blocks == StyleBlocks(result.doc) IN
              /\ (op = "combined" \/ ~IsBlank(cDesign.text)) => Len(blocks) = 1
              /\ \A k \in 1..Len(blocks) :
                    /\ blocks[k] = Open("style") \o TagEnd \o Tpl("@import url('")
                                   \o Url(PiecesOf(blocks[k], "url"))
                                   \o Tpl("');") \o Close("style")
                    /\ XmlSafe(PiecesOf(blocks[k], "url"))
                    /\ Contains(PiecesOf(blocks[k], "url"), <<"&", "a", "m", "p", ";">>)
                    /\ XmlDecode(PiecesOf(blocks[k], "url")) = FontUrl(FontName(cDesign.font))

\* C17 witness: an engraving of a design with text in a font whose name has
\* a space has been produced.
C17_Witness ==
    /\ op = "engraving"
    /\ result.status = "resolved"
    /\ cDesign.font = "bebas_neue"
    /\ ~IsBlank(cDesign.text)
    /\ Len(StyleBlocks(result.doc)) = 1

\* C19: once an operation has been called with a design, no step of it
\* changes a field of that design.
C19_DesignNotMutated == [][op # "none" => cDesign' = cDesign]_vars

\* C19 witness: generateEngravingSvg has resolved for a design whose text
\* colour and text style are not the ones of the engraving.
C19_Witness ==
    /\ op = "engraving"
    /\ result.status = "resolved"
    /\ cDesign.textStyle = "chrome"
    /\ cDesign.textColor = <<"#A78BFA">>
    /\ ~IsBlank(cDesign.text)

\* C20: getTextElements is never called with empty or whitespace-only
\* text: every recorded call has a non-blank text, and an operation that
\* has finished for a design with blank text has not called it.
C20_LayoutNeverBlank ==
    /\ layDone => ~IsBlank(layDesign.text)
    /\ (op # "none" /\ IsBlank(cDesign.text)) => ~layDone

\* C20 witness: generateCombinedSvg has resolved for a whitespace-only text
\* without a call of the layout engine.
C20_Witness ==
    /\ op = "combined"
    /\ cDesign.text = <<" ">>
    /\ result.status = "resolved"
    /\ ~layDone

\* the cap of the ratio at 1 left out: Math.min(maxLogoDim / width,
\* maxLogoDim / height)
Ratio64_NoCap(logoDims) ==
    FMinOf( (IF logoDims.width > 0 THEN {FDiv(maxLogoDim, logoDims.width)} ELSE {})
            \cup (IF logoDims.height > 0 THEN {FDiv(maxLogoDim, logoDims.height)} ELSE {})
            \cup (IF logoDims.width = 0 /\ logoDims.height = 0 THEN {FromInt(1)} ELSE {}) )
\* ratio = Math.min(maxLogoDim / width, maxLogoDim / height, 1) in doubles;
\* a division by zero yields +Infinity, which is never the minimum.
Ratio64(logoDims) ==
    FMinOf( {FromInt(1)}
            \cup (IF logoDims.width > 0 THEN {FDiv(maxLogoDim, logoDims.width)} ELSE {})
            \cup (IF logoDims.height > 0 THEN {FDiv(maxLogoDim, logoDims.height)} ELSE {}) )

\* scaledLogo = { width: width * ratio, height: height * ratio } in doubles
ScaledLogo64(logoDims) ==
    [width  |-> FMulInt(logoDims.width, Ratio64(logoDims)),
     height |-> FMulInt(logoDims.height, Ratio64(logoDims))]

----------------------------------------------------------------------------
(* Specification of the scaling step of the composers (the same two lines  *)
(* in generateTextOnlySvg, generateCombinedSvg and generateEngravingSvg)   *)
(* as a pure function of the decoded logo dimensions.                      *)

SideSpread == 4

\* widths and heights of decoded logos: small ones, the ones around
\* maxLogoDim and some larger ones
LogoSides ==
    (0..SideSpread)
    \cup { maxLogoDim - d : d \in 0..SideSpread }
    \cup { maxLogoDim + d : d \in 0..SideSpread }
    \cup {530, 610, 1200}

SclInit ==
    /\ sclDims \in [width : LogoSides, height : LogoSides]
    /\ sclBox = [width |-> [bits |-> <<>>, exp |-> 0], height |-> [bits |-> <<>>, exp |-> 0]]
    /\ sclDone = FALSE
    /\ styIn = [style |-> "none", textColor |-> <<>>, gradientStart |-> <<>>, gradientEnd |-> <<>>, id |-> ""]
    /\ styAttrs = <<>>
    /\ styDefs = <<>>
    /\ styDone = FALSE
    /\ renders = [r \in {1, 2} |-> [op |-> "none", design |-> BaseDesign, pc |-> "idle",
                                    concurrent |-> FALSE, doc |-> <<>>]]
    /\ history = <<initialDesignState>>
    /\ historyIndex = 0
    /\ readers = <<>>
    /\ logoFileRef = "null"
    /\ sampleLogo = "pending"
    /\ isLoading = FALSE
    /\ error = "null"
    /\ generatedImage = "null"
    /\ requests = 0
    /\ lastOp = "none"
    /\ lastNewState = initialDesignState
    /\ escIn = <<>>
    /\ escOut = <<>>
    /\ escDone = FALSE
    /\ layDesign = BaseDesign
    /\ layBox = [width |-> Q(400), height |-> Q(300)]
    /\ layOut = <<>>
    /\ layDone = FALSE
    /\ cDesign = BaseDesign
    /\ logoNat = [width |-> 0, height |-> 0]
    /\ op = "none"
    /\ embedArg = FALSE
    /\ pc = "idle"
    /\ fontAsset = EmptyFont
    /\ fontOutcome = "none"
    /\ fontFailAt = "none"
    /\ result = Pending
    /\ svgString = <<>>
    /\ canvas = NoCanvas
    /\ logoDecodes = 0
    /\ cssFetches = 0
    /\ binFetches = 0
    /\ urlsCreated = 0
    /\ urlsRevoked = 0
    /\ composeCalls = 0

SclApply ==
    /\ ~sclDone
    /\ sclBox' = ScaledLogo64(sclDims)
    /\ sclDone' = TRUE
    /\ UNCHANGED sclDims
    /\ UNCHANGED <<escVars, layVars, renVars, styVars, renders, appVars>>

SclNext == SclApply

SpecScale == SclInit /\ [][SclNext]_vars

\* C11: for a logo with positive dimensions, one of them above 400, the
\* larger dimension of the scaled box is exactly 400, the smaller one is at
\* most 400, and scaledWidth * height = scaledHeight * width.
C11_ScaleToFit ==
    (sclDone /\ sclDims.width >= 1 /\ sclDims.height >= 1
        /\ (sclDims.width > maxLogoDim \/ sclDims.height > maxLogoDim)) =>
        /\ FMaxOf({sclBox.width, sclBox.height}) = FromInt(maxLogoDim)
        /\ FLe(FMinOf({sclBox.width, sclBox.height}), FromInt(maxLogoDim))
        /\ FMulInt(sclDims.height, sclBox.width) = FMulInt(sclDims.width, sclBox.height)

\* the design of the documents compared in C12
SclDesign == [BaseDesign EXCEPT !.text = <<"A">>]

\* C12: for a logo with positive dimensions, both at most 400, the ratio is
\* 1 and the scaled box is the logo's natural size; the image element of
\* generateCombinedSvg and of generateEngravingSvg has the natural size and
\* generateTextOnlySvg places the text below a box of the natural height.
C12_NoUpscale ==
    (sclDone /\ sclDims.width \in 1..maxLogoDim /\ sclDims.height \in 1..maxLogoDim) =>
        LET w == sclDims.width
            h == sclDims.height
            size == Tpl("width=") \o Num(Q(w)) \o Tpl("height=") \o Num(Q(h))
                    \o Tpl("preserveAspectRatio=xMidYMid meet")
            textOnly == TextOnlyDoc(SclDesign, sclDims, FALSE, EmptyFont)
        IN  /\ Ratio64(sclDims) = FromInt(1)
            /\ sclBox = [width |-> FromInt(w), height |-> FromInt(h)]
            /\ ScaledLogo(sclDims) = [width |-> Q(w), height |-> Q(h)]
            /\ Contains(CombinedDoc(SclDesign, sclDims), size)
            /\ Contains(EngravingDoc(SclDesign, sclDims, textOnly), size)
            /\ Contains(textOnly, Tpl("y=") \o Num(QAdd(QAdd(Center.y, QHalf(Q(h))), Q(60))))

\* C12 witness: a logo of 400 x 396 has been scaled.
C12_Witness ==
    /\ sclDone
    /\ sclDims = [width |-> 400, height |-> 396]
    /\ sclBox = [width |-> FromInt(400), height |-> FromInt(396)]

----------------------------------------------------------------------------
(* Specification of the style resolver (getTextStyleSvg, getTextStyleDefs) *)
(* as a pair of pure functions of the style, the colours and the id.       *)

MaxColorLen == 2

\* the ten styles of the catalog and one value outside it
StyleInputs == TextStyles \cup {"sparkle"}

StyColors == UNION { [1..n -> {"#", "f", "<"}] : n \in 0..MaxColorLen }

StyGradientColors == { <<"#2563EB">>, <<"&">> }

StyIds == {"text-element", "design-element"}

StyInit ==
    /\ sclDims = [width |-> 0, height |-> 0]
    /\ sclBox = [width |-> [bits |-> <<>>, exp |-> 0], height |-> [bits |-> <<>>, exp |-> 0]]
    /\ sclDone = FALSE
    /\ styIn \in [style : StyleInputs, textColor : StyColors,
                 gradientStart : StyGradientColors, gradientEnd : StyGradientColors,
                 id : StyIds]
    /\ styAttrs = <<>>
    /\ styDefs = <<>>
    /\ styDone = FALSE
    /\ renders = [r \in {1, 2} |-> [op |-> "none", design |-> BaseDesign, pc |-> "idle",
                                    concurrent |-> FALSE, doc |-> <<>>]]
    /\ history = <<initialDesignState>>
    /\ historyIndex = 0
    /\ readers = <<>>
    /\ logoFileRef = "null"
    /\ sampleLogo = "pending"
    /\ isLoading = FALSE
    /\ error = "null"
    /\ generatedImage = "null"
    /\ requests = 0
    /\ lastOp = "none"
    /\ lastNewState = initialDesignState
    /\ escIn = <<>>
    /\ escOut = <<>>
    /\ escDone = FALSE
    /\ layDesign = BaseDesign
    /\ layBox = [width |-> Q(400), height |-> Q(300)]
    /\ layOut = <<>>
    /\ layDone = FALSE
    /\ cDesign = BaseDesign
    /\ logoNat = [width |-> 0, height |-> 0]
    /\ op = "none"
    /\ embedArg = FALSE
    /\ pc = "idle"
    /\ fontAsset = EmptyFont
    /\ fontOutcome = "none"
    /\ fontFailAt = "none"
    /\ result = Pending
    /\ svgString = <<>>
    /\ canvas = NoCanvas
    /\ logoDecodes = 0
    /\ cssFetches = 0
    /\ binFetches = 0
    /\ urlsCreated = 0
    /\ urlsRevoked = 0
    /\ composeCalls = 0

StyApply ==
    /\ ~styDone
    /\ styAttrs' = getTextStyleSvg(styIn.style, styIn.textColor, styIn.id)
    /\ styDefs' = getTextStyleDefs(styIn.style, styIn.textColor, styIn.gradientStart,
                                   styIn.gradientEnd, styIn.id)
    /\ styDone' = TRUE
    /\ UNCHANGED styIn
    /\ UNCHANGED <<escVars, layVars, renVars, sclVars, renders, appVars>>

StyNext == StyApply

SpecStyle == StyInit /\ [][StyNext]_vars

StylesWithDefs == {"shadow", "glow", "neon", "3d", "metallic", "chrome", "gradient"}

\* C14: for each of the ten styles and every id the attributes are
\* non-empty; the defs are non-empty exactly for shadow, glow, neon, 3d,
\* metallic, chrome and gradient and then define one id, the only id the
\* attributes reference; without defs the attributes reference no id; a
\* style outside the catalog yields fill=textColor alone and empty defs.
C14_StyleResolverTotal ==
    styDone =>
        /\ styAttrs # <<>>
        /\ (styDefs # <<>>) <=> (styIn.style \in StylesWithDefs)
        /\ styDefs # <<>> =>
              /\ Cardinality(DefinedIds(styDefs)) = 1
              /\ ReferencedIds(styAttrs) = DefinedIds(styDefs)
              /\ WellFormed(styDefs)
        /\ styDefs = <<>> => ReferencedIds(styAttrs) = {}
        /\ styIn.style \notin TextStyles =>
              /\ styAttrs = Tpl("fill=") \o Val(styIn.textColor)
              /\ styDefs = <<>>

\* C14 witness: the 3d style has been resolved for the id of the combined
\* document.
C14_Witness ==
    /\ styDone
    /\ styIn.style = "3d"
    /\ styIn.id = "design-element"
    /\ ReferencedIds(styAttrs) = {"three-d-design-element"}
    /\ DefinedIds(styDefs) = {"three-d-design-element"}

----------------------------------------------------------------------------
(* Two renders started from the same page, their steps interleaved.  A     *)
(* render is generateTextOnlySvg(design, false), generateCombinedSvg, or   *)
(* the generateTextOnlySvg(design, true) call of generateTextOnlyPng; it   *)
(* is followed up to the document it generates.  The module keeps no state *)
(* between calls, so a render is a function of its own arguments and of    *)
(* the events delivered to it.                                             *)

PairOps == {"textOnly", "png", "combined"}

PairDesigns ==
    { [BaseDesign EXCEPT !.text = <<"A">>, !.style = st, !.textStyle = ts] :
        st \in {"classic", "full_circle", "distressed_vintage"},
        ts \in {"none", "shadow", "gradient"} }

PairLogo == [width |-> 800, height |-> 600]

InFlight(r) == renders[r].pc \in {"logo", "font"}

PairInit ==
    /\ sclDims = [width |-> 0, height |-> 0]
    /\ sclBox = [width |-> [bits |-> <<>>, exp |-> 0], height |-> [bits |-> <<>>, exp |-> 0]]
    /\ sclDone = FALSE
    /\ styIn = [style |-> "none", textColor |-> <<>>, gradientStart |-> <<>>, gradientEnd |-> <<>>, id |-> ""]
    /\ styAttrs = <<>>
    /\ styDefs = <<>>
    /\ styDone = FALSE
    /\ renders = [r \in {1, 2} |-> [op |-> "none", design |-> BaseDesign, pc |-> "idle",
                                    concurrent |-> FALSE, doc |-> <<>>]]
    /\ history = <<initialDesignState>>
    /\ historyIndex = 0
    /\ readers = <<>>
    /\ logoFileRef = "null"
    /\ sampleLogo = "pending"
    /\ isLoading = FALSE
    /\ error = "null"
    /\ generatedImage = "null"
    /\ requests = 0
    /\ lastOp = "none"
    /\ lastNewState = initialDesignState
    /\ escIn = <<>>
    /\ escOut = <<>>
    /\ escDone = FALSE
    /\ layDesign = BaseDesign
    /\ layBox = [width |-> Q(400), height |-> Q(300)]
    /\ layOut = <<>>
    /\ layDone = FALSE
    /\ cDesign = BaseDesign
    /\ logoNat = [width |-> 0, height |-> 0]
    /\ op = "none"
    /\ embedArg = FALSE
    /\ pc = "idle"
    /\ fontAsset = EmptyFont
    /\ fontOutcome = "none"
    /\ fontFailAt = "none"
    /\ result = Pending
    /\ svgString = <<>>
    /\ canvas = NoCanvas
    /\ logoDecodes = 0
    /\ cssFetches = 0
    /\ binFetches = 0
    /\ urlsCreated = 0
    /\ urlsRevoked = 0
    /\ composeCalls = 0

\* a call of an exported operation: it runs up to its await of the logo
PairCall(r) ==
    /\ renders[r].pc = "idle"
    /\ \E o \in PairOps, d \in PairDesigns :
        renders' = [renders EXCEPT ![r] =
                        [op |-> o, design |-> d, pc |-> "logo",
                         concurrent |-> InFlight(3 - r), doc |-> <<>>]]
    /\ UNCHANGED <<escVars, layVars, renVars, sclVars, styVars, appVars>>

\* img.onload of getLogoDimensions: the link-mode composers generate their
\* document, the embed-mode one awaits fetchAndEncodeFont
PairLogoLoaded(r) ==
    /\ renders[r].pc = "logo"
    /\ LET cur == renders[r] IN
       renders' = [renders EXCEPT ![r] =
            CASE cur.op = "textOnly" ->
                    [cur EXCEPT !.pc = "done",
                                !.doc = TextOnlyDoc(cur.design, PairLogo, FALSE, EmptyFont)]
              [] cur.op = "combined" ->
                    [cur EXCEPT !.pc = "done", !.doc = CombinedDoc(cur.design, PairLogo)]
              [] OTHER -> [cur EXCEPT !.pc = "font"]]
    /\ UNCHANGED <<escVars, layVars, renVars, sclVars, styVars, appVars>>

\* img.onerror of getLogoDimensions
PairLogoError(r) ==
    /\ renders[r].pc = "logo"
    /\ renders' = [renders EXCEPT ![r].pc = "failed"]
    /\ UNCHANGED <<escVars, layVars, renVars, sclVars, styVars, appVars>>

\* fetchAndEncodeFont resolved, with a font asset or with the empty one
PairFontResolved(r) ==
    /\ renders[r].pc = "font"
    /\ \E fd \in {EmptyFont, [dataUri |-> <<"data:font/woff2;base64,d09GMg">>,
                              format |-> <<"woff2">>]} :
        renders' = [renders EXCEPT ![r] =
                        [renders[r] EXCEPT !.pc = "done",
                             !.doc = TextOnlyDoc(renders[r].design, PairLogo, TRUE, fd)]]
    /\ UNCHANGED <<escVars, layVars, renVars, sclVars, styVars, appVars>>

PairNext ==
    \/ \E r \in {1, 2} : PairCall(r)
    \/ \E r \in {1, 2} : PairLogoLoaded(r)
    \/ \E r \in {1, 2} : PairLogoError(r)
    \/ \E r \in {1, 2} : PairFontResolved(r)

SpecPair == PairInit /\ [][PairNext]_vars

\* C18: two renders that were in flight at the same time generate disjoint
\* sets of def ids (filter, gradient and path ids).
C18_IndependentIds ==
    (renders[1].pc = "done" /\ renders[2].pc = "done"
        /\ (renders[1].concurrent \/ renders[2].concurrent)) =>
        DefinedIds(renders[1].doc) \cap DefinedIds(renders[2].doc) = {}

----------------------------------------------------------------------------
(* The order of the two fetches of fetchAndEncodeFont *)

DescriptorFailures == {"cssFetchRejected", "cssNotOk", "cssBody", "noWoff2Url"}

\* C21: in embed mode the font file is fetched at most once, and only once
\* the stylesheet fetch has returned an ok response whose body names a woff2
\* file; when the stylesheet fetch fails, is not ok or names no woff2 file,
\* the empty asset is returned and no font file has been fetched; an asset
\* with a data URI and format woff2 is returned only when both fetches
\* succeeded.
C21_FontFetchOrder ==
    /\ binFetches <= 1
    /\ cssFetches <= 1
    /\ binFetches = 1 =>
          /\ cssFetches = 1
          /\ pc \notin {"idle", "logoOuter", "logoInner", "cssFetch", "cssText"}
          /\ fontFailAt \notin DescriptorFailures
    /\ pc \in {"cssFetch", "cssText"} => binFetches = 0 /\ cssFetches = 1
    /\ fontFailAt \in DescriptorFailures =>
          /\ binFetches = 0
          /\ fontOutcome = "resolved"
          /\ fontAsset = EmptyFont
    /\ fontAsset # EmptyFont =>
          /\ fontOutcome = "resolved"
          /\ fontFailAt = "none"
          /\ cssFetches = 1
          /\ binFetches = 1
          /\ fontAsset.dataUri # <<>>
          /\ fontAsset.format = <<"woff2">>
    /\ (fontOutcome = "resolved" /\ fontFailAt = "none") => fontAsset # EmptyFont

\* C21 witness: the stylesheet named no woff2 file and the resolver returned
\* the empty asset after its one stylesheet fetch.
C21_Witness ==
    /\ fontFailAt = "noWoff2Url"
    /\ fontOutcome = "resolved"
    /\ fontAsset = EmptyFont
    /\ cssFetches = 1

\* C22: one call of generateTextOnlySvg (with non-blank text),
\* generateCombinedSvg or generateEngravingSvg starts getLogoDimensions
\* exactly once: never a second decode while it runs, and exactly one
\* decode started once the logo check has passed.
C22_LogoDecodedOnce ==
    (/\ op \in {"textOnly", "combined", "engraving"}
     /\ op = "textOnly" => ~IsBlank(cDesign.text)) =>
        /\ logoDecodes <= 1
        /\ cDesign.logo # "" => logoDecodes = 1

----------------------------------------------------------------------------
(* Termination of a render *)

Positions ==
    {"idle", "logoOuter", "logoInner", "cssFetch", "cssText", "binFetch", "binBlob",
     "reader", "svgImage", "done"}

\* The operation is suspended on a source (pc names it) and the handler of
\* one of the source's events runs: every handler leaves the position.
Resume ==
    /\ pc \notin {"idle", "done"}
    /\ pc' \in Positions \ {pc}

\* Every source the operation waits for eventually delivers one of its
\* events (load or error, response or rejection); nothing obliges a caller
\* to start an operation.
\* the text style of the designs the operations are called with here
LiveStyles == {"neon"}

LiveNext ==
    \/ CallTextOnly /\ cDesign'.textStyle \in LiveStyles
    \/ CallPng /\ cDesign'.textStyle \in LiveStyles
    \/ CallCombined /\ cDesign'.textStyle \in LiveStyles
    \/ CallEngraving /\ cDesign'.textStyle \in LiveStyles
    \/ LogoLoadedCombined
    \/ LogoLoadedEngraving
    \/ LogoLoadedTextOnly
    \/ LogoError
    \/ CssFetchOk
    \/ CssFetchFail
    \/ CssTextWoff2
    \/ CssTextNoWoff2
    \/ CssTextFail
    \/ BinFetchOk
    \/ BinFetchFail
    \/ BlobOk
    \/ BlobFail
    \/ ReaderLoadEnd
    \/ ReaderError
    \/ SvgImageLoaded
    \/ SvgImageError

SpecLive == Init /\ [][LiveNext]_vars /\ WF_pc(Resume)

\* C23: every operation that has been called eventually settles, and it
\* settles once: a settled result never changes again.
C23_RenderSettles ==
    /\ (op # "none") ~> (result.status \in {"resolved", "rejected"})
    /\ [][result.status # "pending" => result' = result]_vars

\* C23 witness: generateTextOnlyPng has settled after all five sources
\* delivered an event (logo, stylesheet, font file, reader, SVG image).
C23_Witness ==
    /\ op = "png"
    /\ result.status = "resolved"
    /\ fontAsset # EmptyFont
    /\ canvas # NoCanvas

----------------------------------------------------------------------------
(* The editor: the design history, the logo file reader and the mockup     *)
(* request of AppContent.  A handler runs to its end in one step; React    *)
(* renders between two events, so a handler called from the page sees the  *)
(* state of the last render, while a callback registered earlier keeps the *)
(* closure of the render that registered it.                               *)

MaxHistory == 2
MaxReaders == 1
MaxRequests == 2

\* the text value the controls panel writes into the design
AppTexts == { <<"A">> }

\* files picked in the logo input: an accepted one, one of a type that is
\* not accepted, one that is too large
LogoFiles ==
    { [name |-> "a.png", type |-> "image/png", tooBig |-> FALSE, data |-> "data:image/png;base64,AA"],
      [name |-> "a.gif", type |-> "image/gif", tooBig |-> FALSE, data |-> "data:image/gif;base64,AA"],
      [name |-> "b.png", type |-> "image/png", tooBig |-> TRUE, data |-> "data:image/png;base64,BB"] }

design == history[historyIndex + 1]

canUndo == historyIndex > 0
canRedo == historyIndex < Len(history) - 1

\* what the handlers created by the current render have captured
Closure == [history |-> history, historyIndex |-> historyIndex]

\* setDesign of the render with closure c, called with a state (for an
\* updater function: its value on the design of c)
setDesign(newState, c) ==
    IF newState = c.history[c.historyIndex + 1]
    THEN UNCHANGED <<history, historyIndex>>
    ELSE LET newHistory == Append(SubSeq(c.history, 1, c.historyIndex + 1), newState) IN
         /\ history' = newHistory
         /\ historyIndex' = Len(newHistory) - 1

Without(seq, k) == SubSeq(seq, 1, k - 1) \o SubSeq(seq, k + 1, Len(seq))

AppFrame == UNCHANGED <<escVars, layVars, renVars, sclVars, styVars, renders>>

AppInit ==
    /\ cDesign = BaseDesign
    /\ logoNat = [width |-> 0, height |-> 0]
    /\ op = "none"
    /\ embedArg = FALSE
    /\ pc = "idle"
    /\ fontAsset = EmptyFont
    /\ fontOutcome = "none"
    /\ fontFailAt = "none"
    /\ result = Pending
    /\ svgString = <<>>
    /\ canvas = NoCanvas
    /\ logoDecodes = 0
    /\ cssFetches = 0
    /\ binFetches = 0
    /\ urlsCreated = 0
    /\ urlsRevoked = 0
    /\ composeCalls = 0
    /\ escIn = <<>>
    /\ escOut = <<>>
    /\ escDone = FALSE
    /\ layDesign = BaseDesign
    /\ layBox = [width |-> Q(400), height |-> Q(300)]
    /\ layOut = <<>>
    /\ layDone = FALSE
    /\ sclDims = [width |-> 0, height |-> 0]
    /\ sclBox = [width |-> [bits |-> <<>>, exp |-> 0], height |-> [bits |-> <<>>, exp |-> 0]]
    /\ sclDone = FALSE
    /\ styIn = [style |-> "none", textColor |-> <<>>, gradientStart |-> <<>>, gradientEnd |-> <<>>, id |-> ""]
    /\ styAttrs = <<>>
    /\ styDefs = <<>>
    /\ styDone = FALSE
    /\ renders = [r \in {1, 2} |-> [op |-> "none", design |-> BaseDesign, pc |-> "idle",
                                    concurrent |-> FALSE, doc |-> <<>>]]
    /\ history = <<initialDesignState>>
    /\ historyIndex = 0
    /\ readers = <<>>
    /\ logoFileRef = "null"
    /\ sampleLogo = "pending"
    /\ isLoading = FALSE
    /\ error = "null"
    /\ generatedImage = "null"
    /\ requests = 0
    /\ lastOp = "none"
    /\ lastNewState = initialDesignState

\* the controls panel calls the setDesign it was rendered with
EditDesign ==
    /\ historyIndex + 2 <= MaxHistory
    /\ \E t \in AppTexts :
        /\ setDesign([design EXCEPT !.text = t], Closure)
        /\ lastNewState' = [design EXCEPT !.text = t]
    /\ lastOp' = "setDesign"
    /\ UNCHANGED <<readers, logoFileRef, sampleLogo, isLoading, error, generatedImage,
                   requests>>
    /\ AppFrame

\* handleUndo without its canUndo test
handleUndo_Unguarded ==
    /\ historyIndex' = historyIndex - 1
    /\ lastOp' = "undo"
    /\ UNCHANGED <<history, readers, logoFileRef, sampleLogo, isLoading, error,
                   generatedImage, requests>>
    /\ lastNewState' = initialDesignState
    /\ AppFrame

handleUndo ==
    /\ historyIndex' = IF canUndo THEN historyIndex - 1 ELSE historyIndex
    /\ lastOp' = "undo"
    /\ UNCHANGED <<history, readers, logoFileRef, sampleLogo, isLoading, error,
                   generatedImage, requests>>
    /\ lastNewState' = initialDesignState
    /\ AppFrame

handleRedo ==
    /\ historyIndex' = IF canRedo THEN historyIndex + 1 ELSE historyIndex
    /\ lastOp' = "redo"
    /\ UNCHANGED <<history, readers, logoFileRef, sampleLogo, isLoading, error,
                   generatedImage, requests>>
    /\ lastNewState' = initialDesignState
    /\ AppFrame

handleReset ==
    /\ history' = <<initialDesignState>>
    /\ historyIndex' = 0
    /\ lastOp' = "reset"
    /\ UNCHANGED <<readers, logoFileRef, sampleLogo, isLoading, error, generatedImage,
                   requests>>
    /\ lastNewState' = initialDesignState
    /\ AppFrame

\* the useEffect fetch of the sample logo resolved: logoFileRef is set
SampleLogoFetched ==
    /\ sampleLogo = "pending"
    /\ sampleLogo' = "fetched"
    /\ logoFileRef' = "sample_logo.svg"
    /\ lastOp' = "sampleLogo"
    /\ UNCHANGED <<history, historyIndex, readers, isLoading, error, generatedImage,
                   requests>>
    /\ lastNewState' = initialDesignState
    /\ AppFrame

\* the fetch of the sample logo failed: only logged
SampleLogoFailed ==
    /\ sampleLogo = "pending"
    /\ sampleLogo' = "failed"
    /\ lastOp' = "sampleLogo"
    /\ UNCHANGED <<history, historyIndex, readers, logoFileRef, isLoading, error,
                   generatedImage, requests>>
    /\ lastNewState' = initialDesignState
    /\ AppFrame

\* a file is picked: it is checked, stored in logoFileRef and handed to a
\* FileReader whose onload keeps the setDesign of this render
handleLogoChange ==
    /\ historyIndex + 2 <= MaxHistory
    /\ \E file \in LogoFiles :
        IF file.type \notin {"image/png", "image/jpeg", "image/svg+xml"}
        THEN /\ error' = "errorUnsupportedFileType"
             /\ UNCHANGED <<logoFileRef, readers>>
        ELSE IF file.tooBig
        THEN /\ error' = "errorFileSizeExceeds"
             /\ UNCHANGED <<logoFileRef, readers>>
        ELSE /\ Len(readers) < MaxReaders
             /\ logoFileRef' = file.name
             /\ readers' = Append(readers, [file |-> file, closure |-> Closure])
             /\ UNCHANGED error
    /\ lastOp' = "logoChange"
    /\ UNCHANGED <<history, historyIndex, sampleLogo, isLoading, generatedImage, requests>>
    /\ lastNewState' = initialDesignState
    /\ AppFrame

\* reader.onload: setDesign(d => ({ ...d, logo: result })) of the render
\* that started the reader
ReaderOnload ==
    /\ \E k \in 1..Len(readers) :
        LET c == readers[k].closure
            d == c.history[c.historyIndex + 1] IN
        /\ setDesign([d EXCEPT !.logo = readers[k].file.data], c)
        /\ lastNewState' = [d EXCEPT !.logo = readers[k].file.data]
        /\ readers' = Without(readers, k)
    /\ error' = "null"
    /\ lastOp' = "readerLoad"
    /\ UNCHANGED <<logoFileRef, sampleLogo, isLoading, generatedImage, requests>>
    /\ AppFrame

ReaderOnerror ==
    /\ \E k \in 1..Len(readers) : readers' = Without(readers, k)
    /\ error' = "errorCouldNotReadFile"
    /\ lastOp' = "readerError"
    /\ UNCHANGED <<history, historyIndex, logoFileRef, sampleLogo, isLoading,
                   generatedImage, requests>>
    /\ lastNewState' = initialDesignState
    /\ AppFrame

\* handleGenerate up to its await of generateMockupFromApi
handleGenerate ==
    /\ IF logoFileRef = "null"
       THEN /\ error' = "errorNoLogo"
            /\ lastOp' = "generateNoLogo"
            /\ UNCHANGED <<isLoading, generatedImage, requests>>
       ELSE /\ requests < MaxRequests
            /\ isLoading' = TRUE
            /\ error' = "null"
            /\ generatedImage' = "null"
            /\ requests' = requests + 1
            /\ lastOp' = "generate"
    /\ UNCHANGED <<history, historyIndex, readers, logoFileRef, sampleLogo>>
    /\ lastNewState' = initialDesignState
    /\ AppFrame

\* generateMockupFromApi resolved: the try block continues, then finally
MockupResolved ==
    /\ requests > 0
    /\ requests' = requests - 1
    /\ generatedImage' = "imageB64"
    /\ isLoading' = FALSE
    /\ lastOp' = "mockupResolved"
    /\ UNCHANGED <<history, historyIndex, readers, logoFileRef, sampleLogo, error>>
    /\ lastNewState' = initialDesignState
    /\ AppFrame

\* generateMockupFromApi rejected: catch, then finally
MockupRejected ==
    /\ requests > 0
    /\ requests' = requests - 1
    /\ error' = "e.message"
    /\ isLoading' = FALSE
    /\ lastOp' = "mockupRejected"
    /\ UNCHANGED <<history, historyIndex, readers, logoFileRef, sampleLogo, generatedImage>>
    /\ lastNewState' = initialDesignState
    /\ AppFrame


AppNext ==
    \/ EditDesign
    \/ handleUndo
    \/ handleRedo
    \/ handleReset
    \/ SampleLogoFetched
    \/ SampleLogoFailed
    \/ handleLogoChange
    \/ ReaderOnload
    \/ ReaderOnerror
    \/ handleGenerate
    \/ MockupResolved
    \/ MockupRejected

SpecApp == AppInit /\ [][AppNext]_vars

\* C24: when reader.onload runs, the logo is written into the design that
\* is current then: the new current design is the current design with the
\* logo of the file that was read, so every edit made since the file was
\* picked is kept, and the history entries up to the current one stay.
C24_LogoLoadKeepsEdits ==
    [][lastOp' = "readerLoad" =>
          /\ \E k \in 1..Len(readers) :
                /\ readers' = Without(readers, k)
                /\ design' = [design EXCEPT !.logo = readers[k].file.data]
          /\ Len(history') >= historyIndex + 1
          /\ SubSeq(history', 1, historyIndex + 1) = SubSeq(history, 1, historyIndex + 1)]_vars

HistoryOk ==
    /\ Len(history) >= 1
    /\ historyIndex \in 0..(Len(history) - 1)

\* C25: the history is never empty and historyIndex always points at one
\* of its entries; handleUndo at index 0 and handleRedo at the last index
\* change neither the history nor the index.
C25_HistoryIndexInRange ==
    /\ HistoryOk
    /\ [][/\ HistoryOk'
          /\ (lastOp' = "undo" /\ historyIndex = 0) => UNCHANGED <<history, historyIndex>>
          /\ (lastOp' = "redo" /\ historyIndex = Len(history) - 1) =>
                 UNCHANGED <<history, historyIndex>>]_vars

\* C25 witness: handleUndo has run at index 0 of a history that has a redo
\* entry.
C25_Witness ==
    /\ lastOp = "undo"
    /\ historyIndex = 0
    /\ Len(history) = MaxHistory

\* C26: a setDesign call with a state that differs from the current design
\* leaves the history up to the current entry followed by the new state,
\* the index at that last entry and no redo; a call with a state equal to
\* the current design changes neither.
C26_SetDesignTruncatesRedo ==
    [][lastOp' \in {"setDesign", "readerLoad"} =>
          IF lastNewState' # design
          THEN /\ history' = Append(SubSeq(history, 1, historyIndex + 1), lastNewState')
               /\ historyIndex' = Len(history') - 1
               /\ ~canRedo'
          ELSE UNCHANGED <<history, historyIndex>>]_vars

\* C27: a handleGenerate call that starts a request sets isLoading and
\* clears error and generatedImage; a rejected request leaves error set and
\* generatedImage null; every settled request clears isLoading; and
\* isLoading is TRUE whenever a request has not settled.
C27_LoadingTracksRequests ==
    [][/\ lastOp' = "generate" =>
              isLoading' /\ error' = "null" /\ generatedImage' = "null"
       /\ lastOp' = "mockupRejected" =>
              error' # "null" /\ generatedImage' = "null" /\ requests' = requests - 1
       /\ requests' > 0 => isLoading']_vars

----------------------------------------------------------------------------
(* The coordinates getTextElements writes, for texts of several words *)

MaxWords == 6

\* a text of n one-letter words separated by single spaces
WordsText(n) == [i \in 1..(2 * n - 1) |-> IF i % 2 = 1 THEN "A" ELSE " "]

\* sides of the scaled logo box: the least, a middle one and the greatest
AncSides == { Q(1), Q(200), Q(maxLogoDim) }

AncInit ==
    /\ cDesign = BaseDesign
    /\ logoNat = [width |-> 0, height |-> 0]
    /\ op = "none"
    /\ embedArg = FALSE
    /\ pc = "idle"
    /\ fontAsset = EmptyFont
    /\ fontOutcome = "none"
    /\ fontFailAt = "none"
    /\ result = Pending
    /\ svgString = <<>>
    /\ canvas = NoCanvas
    /\ logoDecodes = 0
    /\ cssFetches = 0
    /\ binFetches = 0
    /\ urlsCreated = 0
    /\ urlsRevoked = 0
    /\ composeCalls = 0
    /\ escIn = <<>>
    /\ escOut = <<>>
    /\ escDone = FALSE
    /\ \E st \in LayoutStyles, n \in 1..MaxWords :
          layDesign = [BaseDesign EXCEPT !.style = st, !.text = WordsText(n)]
    /\ layBox \in [width : AncSides, height : AncSides]
    /\ layOut = <<>>
    /\ layDone = FALSE
    /\ sclDims = [width |-> 0, height |-> 0]
    /\ sclBox = [width |-> [bits |-> <<>>, exp |-> 0], height |-> [bits |-> <<>>, exp |-> 0]]
    /\ sclDone = FALSE
    /\ styIn = [style |-> "none", textColor |-> <<>>, gradientStart |-> <<>>, gradientEnd |-> <<>>, id |-> ""]
    /\ styAttrs = <<>>
    /\ styDefs = <<>>
    /\ styDone = FALSE
    /\ renders = [r \in {1, 2} |-> [op |-> "none", design |-> BaseDesign, pc |-> "idle",
                                    concurrent |-> FALSE, doc |-> <<>>]]
    /\ history = <<initialDesignState>>
    /\ historyIndex = 0
    /\ readers = <<>>
    /\ logoFileRef = "null"
    /\ sampleLogo = "pending"
    /\ isLoading = FALSE
    /\ error = "null"
    /\ generatedImage = "null"
    /\ requests = 0
    /\ lastOp = "none"
    /\ lastNewState = initialDesignState

AncNext == LayApply

SpecAnchor == AncInit /\ [][AncNext]_vars

\* C28: for a scaled logo box with sides in 1..400 and a non-blank text,
\* every number getTextElements writes into a path or a text position (the
\* end points and radii of the arcs, the x of the split halves, the y of
\* every stacked line and of the flat line) lies in 0..1000, for every
\* layout style and any number of words.
C28_AnchorsOnCanvas ==
    layDone =>
        \A i \in 1..Len(layOut) :
            layOut[i].src = "num" =>
                /\ QLe(Q(0), layOut[i].q)
                /\ QLe(layOut[i].q, Q(VIEWBOX_SIZE))

====
